---- MODULE Spec2Model ----
(***************************************************************************)
(* The reasoning engine of vectorless-grep: the host command that starts a *)
(* run, the executor loop (planner -> step -> confidence -> termination    *)
(* check -> quality gate -> persist), the planner, the evaluator and the   *)
(* run store, as one state machine.                                        *)
(*                                                                         *)
(* Numbers: every f64 of the program is a multiple of 1/Unit here, with    *)
(* Unit = 100 * 840, so that the fractions matched/terms and               *)
(* valid/evidence (denominators up to 8) and the weights 0.40, 0.25, 0.20, *)
(* 0.15 are exact integers.                                                *)
(*                                                                         *)
(* Strings: a text is a sequence of tokens. "sp" is white space, "SENT" is *)
(* the phrase "could not produce a grounded answer" (in any letter case),  *)
(* "NOGROUND" is the provider's default text, "FILL" is 121 characters of  *)
(* prose that matches no query term; every other token is a word.          *)
(* Option<T> is the empty sequence (None) or a one-element sequence.       *)
(***************************************************************************)
EXTENDS Integers, Sequences, FiniteSets, TLC

----------------------------------------------------------------------------
(* Fixed point *)

Unit == 100 * 840

pct(n) == n * 840

Min(a, b) == IF a <= b THEN a ELSE b

Max(a, b) == IF a >= b THEN a ELSE b

NoneF == <<>>

Some(v) == <<v>>

unwrap_or(opt, d) == IF opt = <<>> THEN d ELSE opt[1]

SeqToSet(s) == { s[i] : i \in 1..Len(s) }

take(s, n) == SubSeq(s, 1, Min(n, Len(s)))

----------------------------------------------------------------------------
(* Bounds of the model *)

\* the largest max_steps a caller passes to start_query
MaxCallerSteps == 11

\* the planner calls of one run that the model answers; the later ones fail
MaxModelPlans == 2

----------------------------------------------------------------------------
(* Program constants *)

MIN_QUALITY_SCORE == pct(60)

MIN_RELATION_QUALITY_SCORE == pct(70)

\* PlannerConfig::default()
PlannerConfig ==
    [ max_steps |-> 6, max_backtracks |-> 2, confidence_threshold |-> pct(70) ]

StepTypes ==
    { "scan_root", "select_sections", "drill_down", "extract_evidence",
      "synthesize", "self_check" }

\* AppError::code
ErrorCodes ==
    { "INVALID_INPUT", "NOT_FOUND", "DATABASE_ERROR", "IO_ERROR", "SIDECAR_ERROR",
      "PROVIDER_AUTH",
      "PROVIDER_RATE_LIMITED", "PROVIDER_TIMEOUT", "PROVIDER_INVALID_RESPONSE",
      "NETWORK_ERROR", "QUALITY_GATE_FAILED", "INTERNAL_ERROR" }

\* the errors a provider call can end with
ProviderErrors ==
    { "PROVIDER_AUTH", "PROVIDER_RATE_LIMITED", "PROVIDER_TIMEOUT",
      "PROVIDER_INVALID_RESPONSE", "NETWORK_ERROR" }

----------------------------------------------------------------------------
(* Texts *)

RECURSIVE trim_start(_)
trim_start(s) ==
    IF s # <<>> /\ Head(s) = "sp" THEN trim_start(Tail(s)) ELSE s

RECURSIVE trim_end(_)
trim_end(s) ==
    IF s # <<>> /\ s[Len(s)] = "sp"
    THEN trim_end(SubSeq(s, 1, Len(s) - 1))
    ELSE s

\* str::trim
trim(s) == trim_end(trim_start(s))

\* the byte length of a token
TokLen(t) ==
    CASE t = "sp" -> 1
      [] t = "SENT" -> 35
      [] t = "NOGROUND" -> 38
      [] t = "FILL" -> 121
      [] OTHER -> 8

RECURSIVE str_len(_)
str_len(s) == IF s = <<>> THEN 0 ELSE TokLen(Head(s)) + str_len(Tail(s))

\* the executor's own text for an empty synthesis
SentinelAnswer == << "SENT" >>

\* the provider's text for a missing answer_markdown field
DefaultAnswer == << "NOGROUND" >>

----------------------------------------------------------------------------
(* The stored corpus: documents and their node trees (read-only to a run) *)

DocTable ==
    { [ id |-> "dA", project_id |-> "p", created_at |-> 2 ],
      [ id |-> "dB", project_id |-> "p", created_at |-> 1 ],
      [ id |-> "dC", project_id |-> "p", created_at |-> 3 ] }

\* words: the query terms that occur in lowercased title || text
NodeTable ==
    { [ id |-> "rA", document_id |-> "dA", parent_id |-> "none",
        node_type |-> "document", title |-> "Spec", words |-> {},
        ordinal_path |-> "root" ],
      [ id |-> "a1", document_id |-> "dA", parent_id |-> "rA",
        node_type |-> "section", title |-> "Latency", words |-> { "latency" },
        ordinal_path |-> "1" ],
      [ id |-> "a2", document_id |-> "dA", parent_id |-> "a1",
        node_type |-> "paragraph", title |-> "", words |-> { "files" },
        ordinal_path |-> "1.1" ],
      [ id |-> "rB", document_id |-> "dB", parent_id |-> "none",
        node_type |-> "document", title |-> "Notes", words |-> {},
        ordinal_path |-> "root" ],
      [ id |-> "b1", document_id |-> "dB", parent_id |-> "rB",
        node_type |-> "paragraph", title |-> "Relations",
        words |-> { "explain", "related" }, ordinal_path |-> "1" ],
      [ id |-> "rC", document_id |-> "dC", parent_id |-> "none",
        node_type |-> "document", title |-> "Files", words |-> { "files" },
        ordinal_path |-> "root" ],
      [ id |-> "c1", document_id |-> "dC", parent_id |-> "rC",
        node_type |-> "paragraph", title |-> "", words |-> { "files" },
        ordinal_path |-> "1" ],
      [ id |-> "c2", document_id |-> "dC", parent_id |-> "rC",
        node_type |-> "paragraph", title |-> "", words |-> { "files" },
        ordinal_path |-> "2" ] }

\* byte-wise string order of the ordinal paths in use:
\* "1" < "1.1" < "2" < "root"
PathRank(path) ==
    CASE path = "1" -> 1
      [] path = "1.1" -> 2
      [] path = "2" -> 3
      [] path = "root" -> 4

\* byte-wise string order of the ids in use
IdRank(id) ==
    CASE id = "a1" -> 1
      [] id = "a2" -> 2
      [] id = "b1" -> 3
      [] id = "c1" -> 4
      [] id = "c2" -> 5
      [] id = "dA" -> 6
      [] id = "dB" -> 7
      [] id = "dC" -> 8
      [] id = "rA" -> 9
      [] id = "rB" -> 10
      [] id = "rC" -> 11

\* the rows of doc_nodes when the documents docs are stored
doc_nodes(docs) == { n \in NodeTable : n.document_id \in docs }

Ids(nodes) == { n.id : n \in nodes }

\* ORDER BY: the rows S by ascending key (key maps each row to its rank; the
\* ranks of the rows of S are distinct)
SortByKey(S, key) ==
    LET RECURSIVE go(_)
        go(R) ==
            IF R = {} THEN <<>>
            ELSE LET m == CHOOSE x \in R : \A y \in R : key[x] <= key[y]
                 IN  << m >> \o go(R \ { m })
    IN  go(S)

NullFirst(n) == IF n.parent_id = "none" THEN 0 ELSE 1

\* WITH RECURSIVE tree(id, depth): the rows reached from frontier in at most
\* k more levels; inDoc restricts the children to one document
RECURSIVE tree_cte(_, _, _, _)
tree_cte(rows, frontier, k, inDoc) ==
    IF k <= 0 \/ frontier = {} THEN frontier
    ELSE frontier \cup
         tree_cte(rows,
                  { c \in rows : /\ c.parent_id \in Ids(frontier)
                                 /\ (inDoc = "none" \/ c.document_id = inDoc) },
                  k - 1, inDoc)

get_tree(docs, document_id, parent_id, depth) ==
    LET rows == doc_nodes(docs)
    IN  IF depth <= 1
        THEN SortByKey({ n \in rows : /\ n.document_id = document_id
                                      /\ n.parent_id = parent_id },
                       [ n \in NodeTable |-> PathRank(n.ordinal_path) ])
        ELSE LET roots == { n \in rows :
                             /\ n.document_id = document_id
                             /\ IF parent_id # "none" THEN n.id = parent_id
                                ELSE n.parent_id = "none" }
             IN  SortByKey(tree_cte(rows, roots, depth, document_id),
                           [ n \in NodeTable |-> 10 * NullFirst(n) + PathRank(n.ordinal_path) ])

DocOf(document_id) == CHOOSE d \in DocTable : d.id = document_id

get_project_tree(docs, project_id, depth) ==
    LET rows == doc_nodes(docs)
        roots == { n \in rows : /\ DocOf(n.document_id).project_id = project_id
                                /\ n.parent_id = "none" }
    IN  IF depth <= 1
        THEN SortByKey(roots,
                       [ n \in NodeTable |-> 10 * DocOf(n.document_id).created_at
                                  + PathRank(n.ordinal_path) ])
        ELSE SortByKey(tree_cte(rows, roots, depth, "none"),
                       [ n \in NodeTable |-> 100 * IdRank(n.document_id) + 10 * NullFirst(n)
                                  + PathRank(n.ordinal_path) ])

is_stopword(value) ==
    value \in { "the", "and", "for", "are", "how", "what", "with", "about",
                "that", "this", "these", "from", "into", "their", "they" }

\* the words of at most 2 characters
ShortWords == { "is", "of", "to" }

\* the query tokens that count: split on non-alphanumerics, lowercased,
\* longer than 2, no stopword
query_terms(query) ==
    { t \in SeqToSet(query.text) :
        t # "sp" /\ t \notin ShortWords /\ ~is_stopword(t) }

\* lexical score of a node: +3 for each query term it contains, +1 for a section
node_score(n, query) ==
    3 * Cardinality(query_terms(query) \cap n.words)
    + (IF n.node_type = "section" THEN 1 ELSE 0)

search_project_nodes(docs, project_id, focus_document_id, query, limit) ==
    LET hits == { n \in doc_nodes(docs) :
                    /\ DocOf(n.document_id).project_id = project_id
                    /\ (focus_document_id = "none"
                        \/ n.document_id = focus_document_id)
                    /\ node_score(n, query) > 0 }
    IN  take(SortByKey(hits,
                       [ n \in NodeTable |-> 0 - 1000 * node_score(n, query)
                                  + 100 * PathRank(n.ordinal_path) + IdRank(n.id) ]),
             limit)

scope_nodes(docs, project_id, focus_document_id, depth) ==
    IF focus_document_id # "none"
    THEN get_tree(docs, focus_document_id, "none", depth)
    ELSE get_project_tree(docs, project_id, depth)

CountDoc(sel, document_id) ==
    Cardinality({ i \in 1..Len(sel) : sel[i].document_id = document_id })

\* the selection loop of pick_candidates
RECURSIVE select_loop(_, _, _, _, _)
select_loop(ranked, selected, limit, max_per_document, focus_document_id) ==
    IF ranked = <<>> \/ Len(selected) >= limit THEN selected
    ELSE LET node == Head(ranked)
             seen_for_document == CountDoc(selected, node.document_id)
         IN  IF focus_document_id = "none" /\ seen_for_document >= max_per_document
             THEN select_loop(Tail(ranked), selected, limit, max_per_document,
                              focus_document_id)
             ELSE select_loop(Tail(ranked), Append(selected, node), limit,
                              max_per_document, focus_document_id)

pick_candidates_uncapped(docs, project_id, focus_document_id, query, limit) ==
    LET found == search_project_nodes(docs, project_id, focus_document_id, query,
                                      Max(limit * 4, 12))
        ranked == IF found = <<>>
                  THEN scope_nodes(docs, project_id, focus_document_id, 2)
                  ELSE found
        max_per_document == Max(limit, 1)
        selected == select_loop(ranked, <<>>, limit, max_per_document,
                                focus_document_id)
    IN  IF ranked = <<>> THEN <<>>
        ELSE IF selected = <<>>
             THEN scope_nodes(docs, project_id, focus_document_id, 2)
             ELSE selected

pick_candidates(docs, project_id, focus_document_id, query, limit) ==
    LET found == search_project_nodes(docs, project_id, focus_document_id, query,
                                      Max(limit * 4, 12))
        ranked == IF found = <<>>
                  THEN scope_nodes(docs, project_id, focus_document_id, 2)
                  ELSE found
        max_per_document == IF focus_document_id # "none"
                            THEN Max(limit, 1)
                            ELSE Max(limit \div 2, 2)
        selected == select_loop(ranked, <<>>, limit, max_per_document,
                                focus_document_id)
    IN  IF ranked = <<>> THEN <<>>
        ELSE IF selected = <<>>
             THEN scope_nodes(docs, project_id, focus_document_id, 2)
             ELSE selected

NodeIds(seq) == [ i \in 1..Len(seq) |-> seq[i].id ]

----------------------------------------------------------------------------
(* Queries *)

\* text: the words of the query; R, M, S, P: a relation / multi-document /
\* single-document hint or a plural pronoun occurs in it; X: "across documents"
\* or "across files" occurs in it
QEmpty ==
    [ text |-> <<>>,
      R |-> FALSE, M |-> FALSE, S |-> FALSE, P |-> FALSE, X |-> FALSE ]

QBlank ==
    [ text |-> << "sp" >>,
      R |-> FALSE, M |-> FALSE, S |-> FALSE, P |-> FALSE, X |-> FALSE ]

QVague ==
    [ text |-> << "what", "sp", "is", "sp", "this" >>,
      R |-> FALSE, M |-> FALSE, S |-> FALSE, P |-> FALSE, X |-> FALSE ]

QLatency ==
    [ text |-> << "what", "sp", "is", "sp", "the", "sp", "latency" >>,
      R |-> FALSE, M |-> FALSE, S |-> FALSE, P |-> FALSE, X |-> FALSE ]

QRelated ==
    [ text |-> << "explain", "sp", "these", "sp", "files", "sp", "how", "sp",
                  "they", "sp", "are", "sp", "related" >>,
      R |-> TRUE, M |-> TRUE, S |-> FALSE, P |-> TRUE, X |-> FALSE ]

Queries == { QEmpty, QBlank, QVague, QLatency, QRelated }

requires_project_scope_any_relation(query) == query.R \/ (query.M /\ query.P)

requires_project_scope(query) ==
    LET has_relation_hint == query.R
        has_multi_doc_hint == query.M
        has_single_doc_hint == query.S
        has_plural_pronoun == query.P
    IN  IF has_multi_doc_hint /\ (has_relation_hint \/ has_plural_pronoun)
        THEN TRUE
        ELSE IF query.X THEN TRUE
        ELSE IF has_relation_hint /\ has_plural_pronoun THEN TRUE
        ELSE has_relation_hint /\ has_multi_doc_hint /\ ~has_single_doc_hint

----------------------------------------------------------------------------
(* Planner *)

\* str::trim().to_ascii_lowercase() of the raw strings a model step carries
trim_lower(raw) ==
    CASE raw = " Search " -> "search"
      [] raw = "STOP" -> "stop"
      [] raw = " " -> ""
      [] OTHER -> raw

parse_decision(raw) ==
    LET v == trim_lower(raw)
    IN  IF v \in { "stop", "finish", "done" } THEN "Stop"
        ELSE IF v \in { "backtrack", "revise", "retry" } THEN "Backtrack"
        ELSE "Continue"

parse_step_kind(raw) ==
    LET v == trim_lower(raw)
    IN  CASE v \in { "search", "scan_root" } -> Some("scan_root")
          [] v = "select_sections" -> Some("select_sections")
          [] v \in { "inspect", "drill_down" } -> Some("drill_down")
          [] v = "extract_evidence" -> Some("extract_evidence")
          [] v = "synthesize" -> Some("synthesize")
          [] v \in { "self_check", "validate" } -> Some("self_check")
          [] v = "finish" -> Some("self_check")
          [] OTHER -> NoneF

RevisionBlock ==
    << "select_sections", "drill_down", "extract_evidence", "synthesize",
       "self_check" >>

FullPipeline ==
    << "scan_root", "select_sections", "drill_down", "extract_evidence",
       "synthesize", "self_check" >>

next_steps_backtrack_unknown(input) ==
    IF input.step_count >= PlannerConfig.max_steps
    THEN [ decision |-> "Stop", steps |-> <<>> ]
    ELSE IF /\ unwrap_or(input.last_confidence, 0) < PlannerConfig.confidence_threshold
            /\ input.backtrack_count < PlannerConfig.max_backtracks
    THEN [ decision |-> "Backtrack", steps |-> RevisionBlock ]
    ELSE IF input.has_evidence
    THEN [ decision |-> "Continue", steps |-> << "synthesize", "self_check" >> ]
    ELSE [ decision |-> "Continue", steps |-> FullPipeline ]

\* Planner::next_steps (the objectives of the steps are texts for the trace only)
next_steps(input) ==
    IF input.step_count >= PlannerConfig.max_steps
    THEN [ decision |-> "Stop", steps |-> <<>> ]
    ELSE IF /\ input.last_confidence # NoneF
            /\ input.last_confidence[1] < PlannerConfig.confidence_threshold
            /\ input.backtrack_count < PlannerConfig.max_backtracks
    THEN [ decision |-> "Backtrack", steps |-> RevisionBlock ]
    ELSE IF input.has_evidence
    THEN [ decision |-> "Continue", steps |-> << "synthesize", "self_check" >> ]
    ELSE [ decision |-> "Continue", steps |-> FullPipeline ]

expand_step_single(kind) == << kind >>

\* the expansion of an accepted model step kind
expand_step(kind) ==
    CASE kind = "scan_root" -> << "scan_root", "select_sections" >>
      [] kind = "drill_down" -> << "drill_down", "extract_evidence" >>
      [] kind = "synthesize" -> << "synthesize" >>
      [] kind = "self_check" -> << "self_check" >>
      [] kind \in { "select_sections", "extract_evidence" } -> << kind >>

next_steps_from_model_stop_honoured(input, model_step) ==
    IF input.step_count >= PlannerConfig.max_steps
    THEN Some([ decision |-> "Stop", steps |-> <<>> ])
    ELSE LET decision == parse_decision(model_step.decision)
         IN  IF decision = "Stop"
             THEN Some([ decision |-> decision, steps |-> <<>> ])
             ELSE IF decision = "Backtrack"
             THEN Some([ decision |-> decision, steps |-> RevisionBlock ])
             ELSE LET kind == parse_step_kind(model_step.step_type)
                  IN  IF kind = NoneF THEN NoneF
                      ELSE Some([ decision |-> "Continue",
                                  steps |-> expand_step(kind[1]) ])

\* Planner::next_steps_from_model: Some(plan), or None when the step is rejected
next_steps_from_model(input, model_step) ==
    IF input.step_count >= PlannerConfig.max_steps
    THEN Some([ decision |-> "Stop", steps |-> <<>> ])
    ELSE LET decision == parse_decision(model_step.decision)
         IN  IF decision = "Stop"
             THEN IF ~input.has_evidence
                  THEN Some([ decision |-> "Continue",
                              steps |-> << "scan_root", "select_sections" >> ])
                  ELSE Some([ decision |-> decision, steps |-> <<>> ])
             ELSE IF decision = "Backtrack"
             THEN Some([ decision |-> decision, steps |-> RevisionBlock ])
             ELSE LET kind == parse_step_kind(model_step.step_type)
                  IN  IF kind = NoneF THEN NoneF
                      ELSE Some([ decision |-> "Continue",
                                  steps |-> expand_step(kind[1]) ])

\* GeminiClient::generate_plan_step on a response: a transport or status error,
\* or the parsed step, which must carry a step type and an objective
generate_plan_step(response) ==
    IF response.error # "none" THEN [ ok |-> FALSE, error |-> response.error ]
    ELSE IF trim_lower(response.step.step_type) = ""
            \/ trim_lower(response.step.objective) = ""
    THEN [ ok |-> FALSE, error |-> "PROVIDER_INVALID_RESPONSE" ]
    ELSE [ ok |-> TRUE, step |-> response.step ]

plan_for_failure_stops(input, response) ==
    LET r == generate_plan_step(response)
    IN  IF r.ok
        THEN LET m == next_steps_from_model(input, r.step)
             IN  IF m = NoneF THEN next_steps(input) ELSE m[1]
        ELSE [ decision |-> "Stop", steps |-> <<>> ]

\* lines 96-106 of the run loop: the plan of one iteration
plan_for(input, response) ==
    LET r == generate_plan_step(response)
    IN  IF r.ok
        THEN LET m == next_steps_from_model(input, r.step)
             IN  IF m = NoneF THEN next_steps(input) ELSE m[1]
        ELSE next_steps(input)

----------------------------------------------------------------------------
(* Evaluator *)

query_alignment_score(query, answer) ==
    LET terms == query_terms(query)
        matched == Cardinality({ t \in terms : t \in SeqToSet(answer) })
    IN  IF terms = {} THEN 0
        ELSE Min((matched * Unit) \div Cardinality(terms), Unit)

evaluate_answer_heavy_cross(query, answer_markdown, citations, evidence_node_ids, citation_document_map, relation_query) ==
    LET grounded == trim(answer_markdown) # <<>> /\ citations # <<>>
        query_alignment == query_alignment_score(query, answer_markdown)
        evidence_set == SeqToSet(evidence_node_ids)
        valid_citations ==
            Cardinality({ i \in 1..Len(citations) : citations[i] \in evidence_set })
        citation_coverage ==
            IF evidence_node_ids = <<>> THEN 0
            ELSE Min((valid_citations * Unit) \div Len(evidence_node_ids), Unit)
        docs == { citation_document_map[c] :
                    c \in SeqToSet(citations) \cap DOMAIN citation_document_map }
        cross_document_coverage ==
            IF relation_query
            THEN IF Cardinality(docs) >= 2 THEN Unit
                 ELSE IF Cardinality(docs) = 1 THEN Unit \div 2
                 ELSE 0
            ELSE Unit
        grounding_score == IF grounded THEN Unit ELSE 0
        overall == (query_alignment * 40 + citation_coverage * 25
                    + cross_document_coverage * 30 + grounding_score * 15) \div 100
    IN  [ overall |-> Min(overall, Unit),
          query_alignment |-> query_alignment,
          citation_coverage |-> citation_coverage,
          cross_document_coverage |-> cross_document_coverage,
          grounded |-> grounded ]

evaluate_answer_precision(query, answer_markdown, citations, evidence_node_ids, citation_document_map, relation_query) ==
    LET grounded == trim(answer_markdown) # <<>> /\ citations # <<>>
        query_alignment == query_alignment_score(query, answer_markdown)
        evidence_set == SeqToSet(evidence_node_ids)
        valid_citations ==
            Cardinality({ i \in 1..Len(citations) : citations[i] \in evidence_set })
        citation_coverage ==
            IF evidence_node_ids = <<>> \/ citations = <<>> THEN 0
            ELSE Min((valid_citations * Unit) \div Len(citations), Unit)
        docs == { citation_document_map[c] :
                    c \in SeqToSet(citations) \cap DOMAIN citation_document_map }
        cross_document_coverage ==
            IF relation_query
            THEN IF Cardinality(docs) >= 2 THEN Unit
                 ELSE IF Cardinality(docs) = 1 THEN Unit \div 2
                 ELSE 0
            ELSE Unit
        grounding_score == IF grounded THEN Unit ELSE 0
        overall == (query_alignment * 40 + citation_coverage * 25
                    + cross_document_coverage * 20 + grounding_score * 15) \div 100
    IN  [ overall |-> Min(overall, Unit),
          query_alignment |-> query_alignment,
          citation_coverage |-> citation_coverage,
          cross_document_coverage |-> cross_document_coverage,
          grounded |-> grounded ]

\* evaluate_answer, lines 5-56
evaluate_answer(query, answer_markdown, citations, evidence_node_ids, citation_document_map, relation_query) ==
    LET grounded == trim(answer_markdown) # <<>> /\ citations # <<>>
        query_alignment == query_alignment_score(query, answer_markdown)
        evidence_set == SeqToSet(evidence_node_ids)
        valid_citations ==
            Cardinality({ i \in 1..Len(citations) : citations[i] \in evidence_set })
        citation_coverage ==
            IF evidence_node_ids = <<>> THEN 0
            ELSE Min((valid_citations * Unit) \div Len(evidence_node_ids), Unit)
        docs == { citation_document_map[c] :
                    c \in SeqToSet(citations) \cap DOMAIN citation_document_map }
        cross_document_coverage ==
            IF relation_query
            THEN IF Cardinality(docs) >= 2 THEN Unit
                 ELSE IF Cardinality(docs) = 1 THEN Unit \div 2
                 ELSE 0
            ELSE Unit
        grounding_score == IF grounded THEN Unit ELSE 0
        overall == (query_alignment * 40 + citation_coverage * 25
                    + cross_document_coverage * 20 + grounding_score * 15) \div 100
    IN  [ overall |-> Min(overall, Unit),
          query_alignment |-> query_alignment,
          citation_coverage |-> citation_coverage,
          cross_document_coverage |-> cross_document_coverage,
          grounded |-> grounded ]

----------------------------------------------------------------------------
(* Executor helpers *)

RECURSIVE dedupe_citations_last_seen(_)
dedupe_citations_last_seen(citations) ==
    IF citations = <<>> THEN <<>>
    ELSE LET rest == dedupe_citations_last_seen(Tail(citations))
         IN  IF Head(citations) \in SeqToSet(rest) THEN rest
             ELSE << Head(citations) >> \o rest

RECURSIVE dedupe_citations(_)
dedupe_citations(citations) ==
    IF citations = <<>> THEN <<>>
    ELSE LET init == dedupe_citations(SubSeq(citations, 1, Len(citations) - 1))
             last == citations[Len(citations)]
         IN  IF last \in SeqToSet(init) THEN init ELSE Append(init, last)

local_confidence_for_answer(answer, citation_count) ==
    IF trim(answer) = <<>> THEN pct(15)
    ELSE LET citation_bonus == Min(citation_count * pct(8), pct(40))
             content_bonus == IF str_len(answer) > 120 THEN pct(20) ELSE pct(10)
         IN  Min(pct(15) + citation_bonus + content_bonus, pct(92))

is_answer_grounded(answer_markdown, citations) ==
    IF trim(answer_markdown) = <<>> THEN FALSE
    ELSE IF citations = <<>> THEN FALSE
    ELSE "SENT" \notin SeqToSet(answer_markdown)

normalize_citations(raw, evidence_ids) ==
    SelectSeq(raw, LAMBDA value : value \in SeqToSet(evidence_ids))

phase_for_step(step_type) ==
    CASE step_type \in { "scan_root", "select_sections", "drill_down",
                         "extract_evidence" } -> "retrieval"
      [] step_type = "synthesize" -> "synthesis"
      [] step_type = "self_check" -> "validation"

----------------------------------------------------------------------------
(* Provider responses *)

NoError == "none"

\* what the model may answer to a planner prompt: the step types and decisions
\* the prompt allows, in another case or between blanks, an unknown one, a blank
PlannerResponses ==
    { [ error |-> e, step |-> [ step_type |-> "", objective |-> "", decision |-> "" ] ] :
        e \in ProviderErrors }
    \cup
    { [ error |-> NoError,
        step |-> [ step_type |-> t, objective |-> o, decision |-> d ] ] :
        t \in { "search", " Search ", "inspect", "synthesize", "self_check",
                "finish", "nonsense", " " },
        o \in { "objective", " " },
        d \in { "continue", "backtrack", "stop", "STOP", "maybe" } }

\* a response with every field missing
NoResponse ==
    [ error |-> NoError, answer_markdown |-> NoneF, confidence |-> NoneF,
      citations |-> NoneF ]

SynthReply(a, c, r) ==
    [ error |-> NoError, answer_markdown |-> a, confidence |-> c, citations |-> r ]

\* the answers of a synthesis response: an empty text, blanks, the query's word
\* between blanks, a text of more than 120 characters, the sentinel phrase
AnswerBlank == << "sp" >>

AnswerLatency == << "sp", "latency", "sp" >>

AnswerRelated == << "explain", "files", "related", "FILL" >>

AnswerSentinel == << "word", "SENT" >>

\* what a synthesis call may get: an error, or JSON in which every field may be
\* missing, the confidence may lie outside [0,1] and the citations may repeat an
\* id or name one that is no evidence
SynthResponses ==
    { [ NoResponse EXCEPT !.error = e ] : e \in { "PROVIDER_TIMEOUT", "PROVIDER_AUTH" } }
    \cup
    { NoResponse,
      SynthReply(Some(<<>>), Some(pct(82)), Some(<< "a1" >>)),
      SynthReply(Some(AnswerBlank), Some(pct(82)), Some(<< "a1" >>)),
      SynthReply(Some(AnswerSentinel), Some(pct(82)), Some(<< "a1" >>)),
      SynthReply(Some(AnswerLatency), Some(pct(82)), Some(<< "a1" >>)),
      SynthReply(Some(AnswerLatency), Some(pct(0 - 20)), NoneF),
      SynthReply(Some(AnswerLatency), Some(pct(150)),
                 Some(<< "ghost", "b1", "b1" >>)),
      SynthReply(Some(AnswerRelated), NoneF, Some(<< "a1" >>)),
      SynthReply(Some(AnswerRelated), Some(pct(150)),
                 Some(<< "ghost", "b1", "b1" >>)) }

\* GeminiClient::generate_answer on a response
generate_answer(response) ==
    IF response.error # NoError THEN [ ok |-> FALSE, error |-> response.error ]
    ELSE [ ok |-> TRUE,
           answer |-> [ answer_markdown |-> unwrap_or(response.answer_markdown,
                                                      DefaultAnswer),
                        confidence |-> unwrap_or(response.confidence, pct(50)),
                        citations |-> unwrap_or(response.citations, <<>>) ],
           token_usage |-> "usage",
           estimated_cost_usd |-> 1 ]

----------------------------------------------------------------------------
(* State *)

VARIABLES
    documents,        \* the ids of the documents stored in the project
    key_present,      \* the secret store holds an API key
    request,          \* the arguments of start_query
    host_result,      \* what start_query returned: "none" yet, "started", or a code
    task,             \* the values the spawned task captured
    pc,               \* where the run is
    max_steps, step_count, backtrack_count, confidence,
    evidence_ids, evidence_snippets, evidence_doc_map,
    answer_markdown, token_usage, cost_usd,
    plan,             \* the plan of this iteration; steps holds what is left of it
    gate,             \* the values computed at loop exit
    outcome,          \* what ReasoningExecutor::run returned
    run_row,          \* the row of reasoning_runs
    steps,            \* the rows of reasoning_steps, in insertion order
    answer,           \* the row of answers, if any
    events,           \* the events emitted to the front end, in order
    hist,             \* what the provider has done so far in this run
    probe             \* one call of a planner or scope function: input and output

vars ==
    << documents, key_present, request, host_result, task, pc, max_steps,
       step_count, backtrack_count, confidence, evidence_ids, evidence_snippets,
       evidence_doc_map, answer_markdown, token_usage, cost_usd, plan, gate,
       outcome, run_row, steps, answer, events, hist, probe >>

\* what no step of a run changes
inputs == << documents, key_present, request, probe >>

locals ==
    << max_steps, step_count, backtrack_count, confidence, evidence_ids,
       evidence_snippets, evidence_doc_map, answer_markdown, token_usage, cost_usd >>

store == << run_row, steps, answer >>

EmptyMap == [ x \in {} |-> "none" ]

NoGate ==
    [ evaluated |-> FALSE, citations |-> <<>>, relation_query |-> FALSE,
      overall |-> 0, cross_document_coverage |-> 0, grounded |-> FALSE,
      min_quality_score |-> 0, last_confidence |-> 0 ]

\* no function has been called on its own
NoProbe == [ fn |-> "none" ]

\* the max_steps values a caller passes
CallerMaxSteps == { NoneF } \cup { Some(n) : n \in { 0, MaxCallerSteps } }

\* the state before start_query is called, but for the arguments and the stores
RunIdle ==
    /\ host_result = "none"
    /\ task = [ focus_document_id |-> "none", max_steps |-> NoneF ]
    /\ pc = "idle"
    /\ max_steps = 0
    /\ step_count = 0
    /\ backtrack_count = 0
    /\ confidence = NoneF
    /\ evidence_ids = <<>>
    /\ evidence_snippets = <<>>
    /\ evidence_doc_map = EmptyMap
    /\ answer_markdown = <<>>
    /\ token_usage = "empty"
    /\ cost_usd = 0
    /\ plan = [ decision |-> "Continue", steps |-> <<>> ]
    /\ gate = NoGate
    /\ outcome = [ kind |-> "pending" ]
    /\ run_row = [ status |-> "absent", phase |-> "none" ]
    /\ steps = <<>>
    /\ answer = NoneF
    /\ events = <<>>
    /\ hist = [ planner |-> "none", pos |-> 0, calls |-> 0, answered |-> 0,
                failed |-> FALSE, synth |-> "none", response |-> NoResponse ]

Init ==
    /\ documents \in { {}, { "dA" }, { "dA", "dB" } }
    /\ key_present \in BOOLEAN
    /\ request \in [ project_id : { "p" }, query : Queries,
                     max_steps : CallerMaxSteps,
                     focus_document_id : { "none", "dA" } ]
    /\ probe = NoProbe
    /\ RunIdle

----------------------------------------------------------------------------
(* What the provider has done so far in this run *)

\* the planner steps the prompt's strategy hints ask for, in order
HintScript ==
    << [ step_type |-> "search", decision |-> "Continue" ],
       [ step_type |-> "inspect", decision |-> "Continue" ],
       [ step_type |-> "synthesize", decision |-> "Continue" ],
       [ step_type |-> "self_check", decision |-> "Continue" ],
       [ step_type |-> "finish", decision |-> "Stop" ] >>

FollowsScript(response, k) ==
    /\ k <= Len(HintScript)
    /\ generate_plan_step(response).ok
    /\ trim_lower(response.step.step_type) = HintScript[k].step_type
    /\ parse_decision(response.step.decision) = HintScript[k].decision

\* planner: "failing" while every call has failed, "script" while every call has
\* followed HintScript (pos calls so far), "other" otherwise; calls: the planner
\* calls of the run, counted up to MaxCallerSteps + 1; answered: those the model
\* answered; failed: generate_plan_step returned Err in the last call
hist_after_plan(h0, response) ==
    LET failed == ~generate_plan_step(response).ok
        h == [ h0 EXCEPT !.failed = failed ]
        scripted == FollowsScript(response, h.pos + 1)
        n == IF response.error = NoError THEN h.answered + 1 ELSE h.answered
        c == Min(h.calls + 1, MaxCallerSteps + 1)
    IN  IF h.planner \in { "none", "failing" } /\ failed
        THEN [ h EXCEPT !.planner = "failing", !.answered = n, !.calls = c ]
        ELSE IF h.planner \in { "none", "script" } /\ scripted
        THEN [ h EXCEPT !.planner = "script", !.pos = h.pos + 1, !.answered = n,
                        !.calls = c ]
        ELSE [ h EXCEPT !.planner = "other", !.pos = 0, !.answered = n,
                        !.calls = c ]

\* the responses a planner call can get now
PlannerResponsesNow(h) ==
    { r \in PlannerResponses : r.error # NoError \/ h.answered < MaxModelPlans }

\* a synthesis response with a non-empty answer that cites the section a1 with
\* confidence 0.82
Cooperating(response) ==
    /\ response.error = NoError
    /\ response.answer_markdown # NoneF
    /\ trim(response.answer_markdown[1]) # <<>>
    /\ "SENT" \notin SeqToSet(response.answer_markdown[1])
    /\ response.confidence = Some(pct(82))
    /\ response.citations = Some(<< "a1" >>)

\* synth: "coop" while every synthesis call has been answered by a cooperating
\* response, "other" otherwise; response: the first response that was no error
hist_after_synth(h, response) ==
    [ h EXCEPT !.synth = IF h.synth \in { "none", "coop" } /\ Cooperating(response)
                         THEN "coop" ELSE "other",
               !.response = IF response.error = NoError THEN response ELSE @ ]

\* the provider answers the synthesis calls of one run alike: a call ends with an
\* error or with the response the run's first answered call got
SynthResponsesNow(h) ==
    { r \in SynthResponses :
        \/ r.error # NoError
        \/ h.response = NoResponse /\ h.synth \in { "none", "other" }
        \/ r = h.response }

----------------------------------------------------------------------------
(* The host command start_query *)

effective_focus_as_given(query, focus_document_id) == focus_document_id

\* lines 30-34: the focus the task runs with
effective_focus(query, focus_document_id) ==
    IF requires_project_scope(query) THEN "none" ELSE focus_document_id

run_reasoning_query_without_key ==
    /\ pc = "idle"
    /\ IF trim(request.query.text) = <<>>
       THEN /\ host_result' = "INVALID_INPUT"
            /\ pc' = "rejected"
            /\ UNCHANGED task
       ELSE /\ task' = [ focus_document_id |->
                           effective_focus(request.query,
                                           request.focus_document_id),
                         max_steps |->
                           IF request.max_steps = NoneF THEN NoneF
                           ELSE Some(Max(request.max_steps[1], 1)) ]
            /\ host_result' = "started"
            /\ pc' = "create"
    /\ UNCHANGED << inputs, locals, plan, gate, outcome, store, events, hist >>

\* run_reasoning_query, up to the spawn of the task
run_reasoning_query ==
    /\ pc = "idle"
    /\ IF trim(request.query.text) = <<>>
       THEN /\ host_result' = "INVALID_INPUT"
            /\ pc' = "rejected"
            /\ UNCHANGED task
       ELSE IF ~key_present
       THEN /\ host_result' = "PROVIDER_AUTH"
            /\ pc' = "rejected"
            /\ UNCHANGED task
       ELSE /\ task' = [ focus_document_id |->
                           effective_focus(request.query,
                                           request.focus_document_id),
                         max_steps |->
                           IF request.max_steps = NoneF THEN NoneF
                           ELSE Some(Max(request.max_steps[1], 1)) ]
            /\ host_result' = "started"
            /\ pc' = "create"
    /\ UNCHANGED << inputs, locals, plan, gate, outcome, store, events, hist >>

----------------------------------------------------------------------------
(* ReasoningExecutor::run *)

\* line 73
effective_max_steps(arg) == Max(unwrap_or(arg, 6), 2)

\* the run returns Err(code)
Fail(code) ==
    /\ outcome' = [ kind |-> "err", code |-> code ]
    /\ pc' = "returned"

\* lines 70-84: create_run, then the initial values of the loop state
create_run ==
    /\ pc = "create"
    /\ \E db_ok \in BOOLEAN :
         IF db_ok
         THEN /\ run_row' = [ status |-> "running", phase |-> "none" ]
              /\ max_steps' = effective_max_steps(task.max_steps)
              /\ pc' = "plan"
              /\ UNCHANGED outcome
         ELSE /\ Fail("DATABASE_ERROR")
              /\ UNCHANGED << run_row, max_steps >>
    /\ UNCHANGED << inputs, host_result, task, step_count, backtrack_count,
                    confidence, evidence_ids, evidence_snippets, evidence_doc_map,
                    answer_markdown, token_usage, cost_usd, plan, gate, steps,
                    answer, events, hist >>

planner_input ==
    [ last_confidence |-> confidence,
      has_evidence |-> evidence_ids # <<>>,
      step_count |-> step_count,
      backtrack_count |-> backtrack_count ]

\* lines 86-113: one planner call and the decision on its plan
plan_iteration ==
    /\ pc = "plan"
    /\ \E response \in PlannerResponsesNow(hist) :
         LET p == plan_for(planner_input, response)
         IN  /\ hist' = hist_after_plan(hist, response)
             /\ plan' = p
             /\ IF p.decision = "Stop"
                THEN pc' = "gate" /\ UNCHANGED backtrack_count
                ELSE /\ pc' = "batch"
                     /\ backtrack_count' =
                          IF p.decision = "Backtrack" THEN backtrack_count + 1
                          ELSE backtrack_count
    /\ UNCHANGED << inputs, host_result, task, max_steps, step_count, confidence,
                    evidence_ids, evidence_snippets, evidence_doc_map,
                    answer_markdown, token_usage, cost_usd, gate, outcome, store,
                    events >>


batch_cut_late(count, limit) == count > limit

\* line 116: the batch is cut off
batch_cut(count, limit) == count >= limit

next_step_index_skipping(count) == count + 2

\* line 119 and line 273: the index of the step that starts now
next_step_index(count) == count + 1

IsRetrieval(step_type) ==
    step_type \in { "scan_root", "select_sections", "drill_down", "extract_evidence" }

\* the awaited call of a step that may fail
StepFaults(step_type) ==
    { "none", "update_run_phase", "add_step" }
    \cup (IF IsRetrieval(step_type) THEN { "query" } ELSE {})

synthesize_allowed_always(snippets) == TRUE

\* lines 214-218: synthesis needs evidence
synthesize_allowed(snippets) == snippets # <<>>

snippet_for(node) == [ citation |-> node.id, document |-> node.document_id ]

\* lines 135-265: what a step of one kind computes from the loop state; the
\* fields after local_confidence are the new values of the loop state
step_effect(step_type, response) ==
    LET focus == task.focus_document_id
        project == request.project_id
        query == request.query
        keep == [ ok |-> TRUE, error |-> NoError, called |-> FALSE,
                  node_refs |-> <<>>, local_confidence |-> 0,
                  evidence_ids |-> evidence_ids,
                  evidence_snippets |-> evidence_snippets,
                  evidence_doc_map |-> evidence_doc_map,
                  answer_markdown |-> answer_markdown,
                  token_usage |-> token_usage, cost_usd |-> cost_usd ]
    IN  CASE step_type = "scan_root" ->
               LET nodes == scope_nodes(documents, project, focus, 2)
               IN  [ keep EXCEPT !.node_refs = take(NodeIds(nodes), 3),
                                 !.local_confidence = pct(25) ]
          [] step_type = "select_sections" ->
               LET candidates == pick_candidates(documents, project, focus, query, 6)
               IN  [ keep EXCEPT !.node_refs = NodeIds(candidates),
                                 !.local_confidence = pct(45) ]
          [] step_type = "drill_down" ->
               LET candidates == pick_candidates(documents, project, focus, query, 12)
               IN  [ keep EXCEPT !.node_refs = NodeIds(candidates),
                                 !.local_confidence = pct(58) ]
          [] step_type = "extract_evidence" ->
               LET candidates == pick_candidates(documents, project, focus, query, 8)
               IN  [ keep EXCEPT
                       !.evidence_ids = NodeIds(candidates),
                       !.evidence_doc_map =
                           [ id \in Ids(SeqToSet(candidates)) |->
                               (CHOOSE n \in SeqToSet(candidates) : n.id = id).document_id ],
                       !.evidence_snippets =
                           [ i \in 1..Len(candidates) |-> snippet_for(candidates[i]) ],
                       !.node_refs = NodeIds(candidates),
                       !.local_confidence = pct(72) ]
          [] step_type = "synthesize" ->
               IF ~synthesize_allowed(evidence_snippets)
               THEN [ keep EXCEPT !.ok = FALSE, !.error = "NOT_FOUND" ]
               ELSE LET output == generate_answer(response)
                    IN  IF ~output.ok
                        THEN [ keep EXCEPT !.ok = FALSE, !.error = output.error,
                                           !.called = TRUE ]
                        ELSE LET trimmed == trim(output.answer.answer_markdown)
                                 normalized ==
                                     normalize_citations(output.answer.citations,
                                                         evidence_ids)
                                 references == IF normalized = <<>>
                                               THEN take(evidence_ids, 4)
                                               ELSE normalized
                             IN  [ keep EXCEPT
                                     !.called = TRUE,
                                     !.answer_markdown =
                                         IF trimmed = <<>> THEN SentinelAnswer
                                         ELSE trimmed,
                                     !.token_usage = output.token_usage,
                                     !.cost_usd = output.estimated_cost_usd,
                                     !.node_refs = references,
                                     !.local_confidence = output.answer.confidence ]
          [] step_type = "self_check" ->
               LET grounded == is_answer_grounded(answer_markdown, evidence_ids)
               IN  [ keep EXCEPT
                       !.node_refs = evidence_ids,
                       !.local_confidence =
                           IF grounded
                           THEN local_confidence_for_answer(answer_markdown,
                                                            Len(evidence_ids))
                           ELSE pct(28) ]

\* lines 115-283: one planned step, up to and including add_step
execute_step ==
    /\ pc = "batch"
    /\ plan.steps # <<>>
    /\ ~batch_cut(step_count, max_steps)
    /\ LET planned == Head(plan.steps)
       IN  \E fault \in StepFaults(planned) :
           \E response \in IF planned = "synthesize" /\ fault # "update_run_phase"
                           THEN SynthResponsesNow(hist) ELSE { NoResponse } :
             /\ step_count' = next_step_index(step_count)
             /\ IF fault = "update_run_phase"
                THEN /\ Fail("DATABASE_ERROR")
                     /\ UNCHANGED << confidence, evidence_ids, evidence_snippets,
                                     evidence_doc_map, answer_markdown, token_usage,
                                     cost_usd, run_row, steps, hist >>
                ELSE
                /\ run_row' = [ run_row EXCEPT !.phase = phase_for_step(planned) ]
                /\ IF fault = "query"
                   THEN /\ Fail("DATABASE_ERROR")
                        /\ UNCHANGED << confidence, evidence_ids, evidence_snippets,
                                        evidence_doc_map, answer_markdown,
                                        token_usage, cost_usd, steps, hist >>
                   ELSE
                   LET r == step_effect(planned, response)
                   IN  /\ hist' = IF r.called THEN hist_after_synth(hist, response)
                                  ELSE hist
                       /\ IF ~r.ok
                          THEN /\ Fail(r.error)
                               /\ UNCHANGED << confidence, evidence_ids,
                                               evidence_snippets, evidence_doc_map,
                                               answer_markdown, token_usage,
                                               cost_usd, steps >>
                          ELSE
                          /\ evidence_ids' = r.evidence_ids
                          /\ evidence_snippets' = r.evidence_snippets
                          /\ evidence_doc_map' = r.evidence_doc_map
                          /\ answer_markdown' = r.answer_markdown
                          /\ token_usage' = r.token_usage
                          /\ cost_usd' = r.cost_usd
                          /\ confidence' = Some(r.local_confidence)
                          /\ IF fault = "add_step"
                             THEN Fail("DATABASE_ERROR") /\ UNCHANGED steps
                             ELSE /\ steps' = Append(steps,
                                        [ idx |-> step_count',
                                          step_type |-> planned,
                                          node_refs |-> r.node_refs,
                                          confidence |-> r.local_confidence ])
                                  /\ pc' = "emit"
                                  /\ UNCHANGED outcome
    /\ UNCHANGED << inputs, host_result, task, max_steps, backtrack_count, plan,
                    gate, answer, events >>

step_event_of_next(row, index) ==
    [ name |-> "reasoning/step", step_index |-> index + 1,
      step_type |-> row.step_type, node_refs |-> row.node_refs,
      confidence |-> row.confidence ]

\* lines 285-295: the ReasoningStepEvent of the step whose values the row holds
step_event(row, index) ==
    [ name |-> "reasoning/step", step_index |-> index,
      step_type |-> row.step_type, node_refs |-> row.node_refs,
      confidence |-> row.confidence ]

\* lines 285-296: on_step for the step just persisted, then the next planned step
emit_step ==
    /\ pc = "emit"
    /\ events' = Append(events, step_event(steps[Len(steps)], step_count))
    /\ plan' = [ plan EXCEPT !.steps = Tail(plan.steps) ]
    /\ pc' = "batch"
    /\ UNCHANGED << inputs, host_result, task, locals, gate, outcome, store, hist >>

loop_done_confidence_only(last, count, limit, backtracks) ==
    unwrap_or(last, 0) >= pct(70)

loop_done_any_backtracks(last, count, limit, backtracks) ==
    \/ unwrap_or(last, 0) >= pct(70)
    \/ count >= limit

\* lines 298-300
loop_done(last, count, limit, backtracks) ==
    \/ unwrap_or(last, 0) >= pct(70)
    \/ count >= limit
    \/ backtracks >= 2

\* lines 115-118 and 298-303: the batch ends (exhausted or cut off), then the
\* termination check
end_batch ==
    /\ pc = "batch"
    /\ plan.steps = <<>> \/ batch_cut(step_count, max_steps)
    /\ pc' = IF loop_done(confidence, step_count, max_steps, backtrack_count)
             THEN "gate" ELSE "plan"
    /\ UNCHANGED << inputs, host_result, task, locals, plan, gate, outcome, store,
                    events, hist >>


exit_citations_as_reported ==
    dedupe_citations(unwrap_or(hist.response.citations, <<>>))

\* line 308: the citation list of the answer
exit_citations == dedupe_citations(evidence_ids)

\* line 309
is_relation_query == task.focus_document_id = "none" /\ requires_project_scope(request.query)

min_quality_score_for_flat(relation_query) == MIN_QUALITY_SCORE

\* lines 319-323
min_quality_score_for(relation_query) ==
    IF relation_query THEN MIN_RELATION_QUALITY_SCORE ELSE MIN_QUALITY_SCORE

quality_gate_passed_strict(grounded, overall, min_quality_score) ==
    grounded /\ overall > min_quality_score

quality_gate_passed_either(grounded, overall, min_quality_score) ==
    grounded \/ overall >= min_quality_score

\* line 324
quality_gate_passed(grounded, overall, min_quality_score) ==
    grounded /\ overall >= min_quality_score

final_confidence_of_lower(grounded, last, overall) ==
    IF grounded THEN Min(last, overall)
    ELSE Min(Min(last, pct(45)), Max(overall, pct(25)))

\* lines 334-338
final_confidence_of(grounded, last, overall) ==
    IF grounded THEN Max(last, overall)
    ELSE Min(Min(last, pct(45)), Max(overall, pct(25)))

\* lines 306-332: the quality gate at loop exit
quality_gate ==
    /\ pc = "gate"
    /\ LET last == unwrap_or(confidence, pct(30))
           citations == exit_citations
           relation_query == is_relation_query
           quality == evaluate_answer(request.query, answer_markdown, citations,
                                      evidence_ids, evidence_doc_map, relation_query)
           grounded == quality.grounded
                       /\ is_answer_grounded(answer_markdown, citations)
           min_quality_score == min_quality_score_for(relation_query)
       IN  /\ gate' = [ evaluated |-> TRUE, citations |-> citations,
                        relation_query |-> relation_query,
                        overall |-> quality.overall,
                        cross_document_coverage |-> quality.cross_document_coverage,
                        grounded |-> grounded,
                        min_quality_score |-> min_quality_score,
                        last_confidence |-> last ]
           /\ IF ~quality_gate_passed(grounded, quality.overall, min_quality_score)
              THEN Fail("QUALITY_GATE_FAILED")
              ELSE pc' = "complete" /\ UNCHANGED outcome
    /\ UNCHANGED << inputs, host_result, task, locals, plan, store, events, hist >>

complete_run_two_writes ==
    /\ pc = "complete"
    /\ LET final_confidence ==
               final_confidence_of(gate.grounded, gate.last_confidence, gate.overall)
       IN  \E updated \in BOOLEAN, inserted \in BOOLEAN :
             /\ inserted => updated
             /\ run_row' = IF updated THEN [ run_row EXCEPT !.status = "completed" ]
                           ELSE run_row
             /\ IF inserted
                THEN /\ answer' = Some([ answer_markdown |-> answer_markdown,
                                         citations |-> gate.citations,
                                         confidence |-> final_confidence,
                                         grounded |-> gate.grounded ])
                     /\ outcome' = [ kind |-> "ok",
                                     final_confidence |-> final_confidence ]
                     /\ pc' = "returned"
                ELSE Fail("DATABASE_ERROR") /\ UNCHANGED answer
    /\ UNCHANGED << inputs, host_result, task, locals, plan, gate, steps, events,
                    hist >>

\* lines 334-362 and reasoning::complete_run: one transaction that sets the
\* status and writes the answer row, or changes nothing
complete_run ==
    /\ pc = "complete"
    /\ LET final_confidence ==
               final_confidence_of(gate.grounded, gate.last_confidence, gate.overall)
       IN  \E db_ok \in BOOLEAN :
             IF db_ok
             THEN /\ run_row' = [ run_row EXCEPT !.status = "completed" ]
                  /\ answer' = Some([ answer_markdown |-> answer_markdown,
                                      citations |-> gate.citations,
                                      confidence |-> final_confidence,
                                      grounded |-> gate.grounded ])
                  /\ outcome' = [ kind |-> "ok", final_confidence |-> final_confidence ]
                  /\ pc' = "returned"
             ELSE /\ Fail("DATABASE_ERROR")
                  /\ UNCHANGED << run_row, answer >>
    /\ UNCHANGED << inputs, host_result, task, locals, plan, gate, steps, events,
                    hist >>

retryable_provider_errors(code) == code \in ProviderErrors

\* AppError::retryable
retryable(code) ==
    code \in { "PROVIDER_RATE_LIMITED", "PROVIDER_TIMEOUT", "NETWORK_ERROR" }

\* reasoning::fail_run: an UPDATE of the run's row, if there is one
fail_run(row) ==
    IF row.status = "absent" THEN row ELSE [ row EXCEPT !.status = "failed" ]

task_outcome_always_fails ==
    /\ pc = "returned"
    /\ IF outcome.kind = "ok"
       THEN events' = Append(events,
                    [ name |-> "reasoning/complete",
                      final_confidence |-> outcome.final_confidence ])
       ELSE events' = Append(events,
                    [ name |-> "reasoning/error", code |-> outcome.code,
                      retryable |-> retryable(outcome.code) ])
    /\ \E db_ok \in BOOLEAN :
         run_row' = IF db_ok THEN fail_run(run_row) ELSE run_row
    /\ pc' = "done"
    /\ UNCHANGED << inputs, host_result, task, locals, plan, gate, outcome, steps,
                    answer, hist >>

\* the spawned task of run_reasoning_query after the run has returned
task_outcome ==
    /\ pc = "returned"
    /\ IF outcome.kind = "ok"
       THEN /\ events' = Append(events,
                    [ name |-> "reasoning/complete",
                      final_confidence |-> outcome.final_confidence ])
            /\ UNCHANGED run_row
       ELSE /\ \E db_ok \in BOOLEAN :
                 run_row' = IF db_ok THEN fail_run(run_row) ELSE run_row
            /\ events' = Append(events,
                    [ name |-> "reasoning/error", code |-> outcome.code,
                      retryable |-> retryable(outcome.code) ])
    /\ pc' = "done"
    /\ UNCHANGED << inputs, host_result, task, locals, plan, gate, outcome, steps,
                    answer, hist >>

----------------------------------------------------------------------------

Next ==
    \/ run_reasoning_query
    \/ create_run
    \/ plan_iteration
    \/ execute_step
    \/ emit_step
    \/ end_batch
    \/ quality_gate
    \/ complete_run
    \/ task_outcome

Spec == Init /\ [][Next]_vars

\* every awaited call returns, so the task always takes its next step
FairSpec == Spec /\ WF_vars(Next)

Terminated == pc \in { "rejected", "done" }

----------------------------------------------------------------------------
(* The planner's functions, called on their own as the planner tests call them *)

MaxProbeSteps == 7
MaxProbeBacktracks == 3

\* the run variables, which a call of a pure function leaves alone
run_state ==
    << documents, key_present, request, host_result, task, pc, locals, plan,
       gate, outcome, store, events, hist >>

\* no run: an empty project and a request that is never started
NoRun ==
    /\ documents = {}
    /\ key_present = FALSE
    /\ request = [ project_id |-> "p", query |-> QBlank,
                   focus_document_id |-> "none", max_steps |-> NoneF ]
    /\ RunIdle

\* PlannerInput values around the limits of PlannerConfig
PlannerInputs ==
    [ step_count : 0..MaxProbeSteps,
      backtrack_count : 0..MaxProbeBacktracks,
      last_confidence : { NoneF, Some(0), Some(PlannerConfig.confidence_threshold - 1),
                          Some(PlannerConfig.confidence_threshold) },
      has_evidence : BOOLEAN ]

\* the replies of a model to the planner prompt: every spelling the parsers
\* accept, in another case or between blanks, an unknown one, a blank
ModelReplies ==
    { [ error |-> e, step |-> [ step_type |-> "", objective |-> "", decision |-> "" ] ] :
        e \in ProviderErrors }
    \cup
    { [ error |-> NoError,
        step |-> [ step_type |-> t, objective |-> o, decision |-> d ] ] :
        t \in { "search", " Search ", "scan_root", "select_sections", "inspect",
                "drill_down", "extract_evidence", "synthesize", "self_check",
                "validate", "finish", "nonsense", " " },
        o \in { "objective", " " },
        d \in { "continue", "backtrack", "revise", "retry", "stop", "STOP",
                "finish", "done", "maybe" } }

PlannerInit ==
    /\ NoRun
    /\ probe \in { [ fn |-> "none", input |-> i, response |-> r, out |-> NoneF ] :
                      i \in PlannerInputs, r \in ModelReplies }

\* planner.next_steps(&input)
call_next_steps ==
    /\ probe.fn = "none"
    /\ probe' = [ probe EXCEPT !.fn = "next_steps",
                               !.out = Some(next_steps(probe.input)) ]
    /\ UNCHANGED run_state

\* planner.next_steps_from_model(&input, &step) on a step the provider returned
call_next_steps_from_model ==
    /\ probe.fn = "none"
    /\ generate_plan_step(probe.response).ok
    /\ probe' = [ probe EXCEPT
                    !.fn = "next_steps_from_model",
                    !.out = next_steps_from_model(
                                probe.input, generate_plan_step(probe.response).step) ]
    /\ UNCHANGED run_state

\* the plan selection of the run loop on a provider reply
call_plan_for ==
    /\ probe.fn = "none"
    /\ probe' = [ probe EXCEPT !.fn = "plan_for",
                               !.out = Some(plan_for(probe.input, probe.response)) ]
    /\ UNCHANGED run_state

PlannerNext ==
    \/ call_next_steps
    \/ call_next_steps_from_model
    \/ call_plan_for

PlannerSpec == PlannerInit /\ [][PlannerNext]_vars

----------------------------------------------------------------------------
(* requires_project_scope, called on its own as the scope tests call it *)

\* the hints a query can carry: "across documents" and "across files" contain
\* a relation hint and a multi-document hint
ScopeQueries ==
    { q \in [ text : { QRelated.text }, R : BOOLEAN, M : BOOLEAN, S : BOOLEAN,
              P : BOOLEAN, X : BOOLEAN ] : q.X => (q.R /\ q.M) }

ScopeInit ==
    /\ NoRun
    /\ probe \in { [ fn |-> "none", query |-> q, focus_document_id |-> f,
                      out |-> NoneF, focus |-> "none" ] :
                      q \in ScopeQueries, f \in { "none", "dA", "dB" } }

\* requires_project_scope(&query) and the focus the host derives from it
call_requires_project_scope ==
    /\ probe.fn = "none"
    /\ probe' = [ probe EXCEPT
                    !.fn = "requires_project_scope",
                    !.out = Some(requires_project_scope(probe.query)),
                    !.focus = effective_focus(probe.query, probe.focus_document_id) ]
    /\ UNCHANGED run_state

ScopeNext == call_requires_project_scope

ScopeSpec == ScopeInit /\ [][ScopeNext]_vars

----------------------------------------------------------------------------
(* evaluate_answer, called on its own as the evaluator tests call it *)

MaxCitations == 2

\* the sequences over S of length at most n
SeqsUpTo(S, n) == UNION { [ 1..k -> S ] : k \in 0..n }

\* citation ids: evidence of two documents and an id that is no evidence
CitationLists == SeqsUpTo({ "a1", "b1", "ghost" }, MaxCitations)

EvidenceLists == { <<>>, << "a1" >>, << "a1", "b1" >>, << "a1", "a2", "b1" >> }

CitationDocumentMaps ==
    { EmptyMap,
      [ id \in { "a1", "a2", "b1" } |-> IF id = "b1" THEN "dB" ELSE "dA" ],
      [ id \in { "a1", "b1" } |-> "dA" ] }

EvalInit ==
    /\ NoRun
    /\ probe \in
         { [ fn |-> "none", query |-> q, answer_markdown |-> a, citations |-> c,
             more_citations |-> m, evidence_node_ids |-> e,
             citation_document_map |-> d, relation_query |-> r,
             out |-> NoneF, out_more |-> NoneF ] :
             q \in { QVague, QLatency, QRelated },
             a \in { <<>>, AnswerBlank, AnswerLatency, AnswerRelated },
             c \in CitationLists, m \in CitationLists, e \in EvidenceLists,
             d \in CitationDocumentMaps, r \in BOOLEAN }

\* evaluate_answer on the citations, and on the other citation list with the
\* rest of the arguments the same
call_evaluate_answer ==
    /\ probe.fn = "none"
    /\ probe' = [ probe EXCEPT
                    !.fn = "evaluate_answer",
                    !.out = Some(evaluate_answer(
                                probe.query, probe.answer_markdown, probe.citations,
                                probe.evidence_node_ids, probe.citation_document_map,
                                probe.relation_query)),
                    !.out_more = Some(evaluate_answer(
                                probe.query, probe.answer_markdown,
                                probe.more_citations, probe.evidence_node_ids,
                                probe.citation_document_map, probe.relation_query)) ]
    /\ UNCHANGED run_state

EvalNext == call_evaluate_answer

EvalSpec == EvalInit /\ [][EvalNext]_vars

----------------------------------------------------------------------------
(* get_tree and get_project_tree, called on their own as the repository test
   and the tree commands call them *)

MaxDepth == 3

TreeInit ==
    /\ NoRun
    /\ probe \in
         { [ fn |-> "none", docs |-> s, project_id |-> j, document_id |-> d,
             parent_id |-> p, depth |-> k, out |-> <<>> ] :
             s \in SUBSET { "dA", "dB" }, j \in { "p", "q" }, d \in { "dA", "dB" },
             p \in { "none" } \cup Ids(NodeTable), k \in 0..MaxDepth }

\* documents::get_tree(pool, document_id, parent_id, depth)
call_get_tree ==
    /\ probe.fn = "none"
    /\ probe' = [ probe EXCEPT
                    !.fn = "get_tree",
                    !.out = get_tree(probe.docs, probe.document_id, probe.parent_id,
                                     probe.depth) ]
    /\ UNCHANGED run_state

\* documents::get_project_tree(pool, project_id, depth)
call_get_project_tree ==
    /\ probe.fn = "none"
    /\ probe' = [ probe EXCEPT
                    !.fn = "get_project_tree",
                    !.out = get_project_tree(probe.docs, probe.project_id,
                                             probe.depth) ]
    /\ UNCHANGED run_state

TreeNext ==
    \/ call_get_tree
    \/ call_get_project_tree

TreeSpec == TreeInit /\ [][TreeNext]_vars

----------------------------------------------------------------------------
(* get_run, called by the host's caller while the task of the run is going on *)

\* the call has not been made
NoGetRun ==
    [ fn |-> "get_run", at |-> "idle", result |-> "none", run |-> "none",
      steps |-> <<>>, answer |-> NoneF ]

GetRunInit ==
    /\ documents = { "dA" }
    /\ key_present = TRUE
    /\ request = [ project_id |-> "p", query |-> QLatency,
                   max_steps |-> NoneF, focus_document_id |-> "dA" ]
    /\ probe = NoGetRun
    /\ RunIdle

\* the status column as get_run reads it into RunStatus
run_status_of(status_raw) ==
    CASE status_raw = "completed" -> "completed"
      [] status_raw = "failed" -> "failed"
      [] OTHER -> "running"

\* first query: the row of reasoning_runs; the caller holds the run_id that
\* run_reasoning_query returned
get_run_header ==
    /\ probe.at = "idle"
    /\ host_result = "started"
    /\ \E db_ok \in BOOLEAN :
         probe' = IF ~db_ok
                  THEN [ probe EXCEPT !.at = "done", !.result = "DATABASE_ERROR" ]
                  ELSE IF run_row.status = "absent"
                  THEN [ probe EXCEPT !.at = "done", !.result = "NOT_FOUND" ]
                  ELSE [ probe EXCEPT !.at = "steps",
                                      !.run = run_status_of(run_row.status) ]
    /\ UNCHANGED run_state

\* second query: the rows of reasoning_steps by idx
get_run_steps ==
    /\ probe.at = "steps"
    /\ \E db_ok \in BOOLEAN :
         probe' = IF ~db_ok
                  THEN [ probe EXCEPT !.at = "done", !.result = "DATABASE_ERROR" ]
                  ELSE [ probe EXCEPT !.at = "answer",
                                      !.steps = [ i \in 1..Len(steps) |->
                                                    steps[i].step_type ] ]
    /\ UNCHANGED run_state

\* third query: the row of answers, if any; then the response
get_run_answer ==
    /\ probe.at = "answer"
    /\ \E db_ok \in BOOLEAN :
         probe' = IF ~db_ok
                  THEN [ probe EXCEPT !.at = "done", !.result = "DATABASE_ERROR" ]
                  ELSE [ probe EXCEPT !.at = "done", !.result = "ok",
                                      !.answer = answer ]
    /\ UNCHANGED run_state

GetRunNext ==
    \/ Next
    \/ get_run_header
    \/ get_run_steps
    \/ get_run_answer

GetRunSpec == GetRunInit /\ [][GetRunNext]_vars

----------------------------------------------------------------------------
(* Two runs of one project, started by two calls of run_reasoning_query; the
   variables hold the task that is executing, probe.parked the task that is
   suspended at an await point. What a task owns: the arguments and locals of
   its future, and the rows and events that carry its run_id *)

\* the state of the executing task as a record
TaskState ==
    [ request |-> request, host_result |-> host_result, task |-> task, pc |-> pc,
      max_steps |-> max_steps, step_count |-> step_count,
      backtrack_count |-> backtrack_count, confidence |-> confidence,
      evidence_ids |-> evidence_ids, evidence_snippets |-> evidence_snippets,
      evidence_doc_map |-> evidence_doc_map, answer_markdown |-> answer_markdown,
      token_usage |-> token_usage, cost_usd |-> cost_usd, plan |-> plan,
      gate |-> gate, outcome |-> outcome, run_row |-> run_row, steps |-> steps,
      answer |-> answer, events |-> events, hist |-> hist ]

\* the requests of the two callers: a step budget of 4, the least with which a
\* run can complete, and the smallest budget
FirstRequest ==
    [ project_id |-> "p", query |-> QLatency, max_steps |-> Some(4),
      focus_document_id |-> "dA" ]

SecondRequest ==
    [ project_id |-> "p", query |-> QVague, max_steps |-> Some(0),
      focus_document_id |-> "none" ]

TwoRunInit ==
    /\ documents = { "dA" }
    /\ key_present = TRUE
    /\ request = FirstRequest
    /\ RunIdle
    /\ probe = [ fn |-> "tasks", current |-> "r1",
                 parked |-> [ TaskState EXCEPT !.request = SecondRequest ] ]

\* the runtime suspends the executing task at an await point and resumes the
\* other one, unless that one has finished
switch_task ==
    /\ probe.fn = "tasks"
    /\ probe.parked.pc \notin { "rejected", "done" }
    /\ probe' = [ probe EXCEPT !.current = IF @ = "r1" THEN "r2" ELSE "r1",
                               !.parked = TaskState ]
    /\ request' = probe.parked.request
    /\ host_result' = probe.parked.host_result
    /\ task' = probe.parked.task
    /\ pc' = probe.parked.pc
    /\ max_steps' = probe.parked.max_steps
    /\ step_count' = probe.parked.step_count
    /\ backtrack_count' = probe.parked.backtrack_count
    /\ confidence' = probe.parked.confidence
    /\ evidence_ids' = probe.parked.evidence_ids
    /\ evidence_snippets' = probe.parked.evidence_snippets
    /\ evidence_doc_map' = probe.parked.evidence_doc_map
    /\ answer_markdown' = probe.parked.answer_markdown
    /\ token_usage' = probe.parked.token_usage
    /\ cost_usd' = probe.parked.cost_usd
    /\ plan' = probe.parked.plan
    /\ gate' = probe.parked.gate
    /\ outcome' = probe.parked.outcome
    /\ run_row' = probe.parked.run_row
    /\ steps' = probe.parked.steps
    /\ answer' = probe.parked.answer
    /\ events' = probe.parked.events
    /\ hist' = probe.parked.hist
    /\ UNCHANGED << documents, key_present >>

TwoRunNext ==
    \/ Next
    \/ switch_task

TwoRunSpec == TwoRunInit /\ [][TwoRunNext]_vars

----------------------------------------------------------------------------
(* dedupe_citations and pick_candidates, called on their own *)

MaxIdList == 4
MaxLimit == 8

DedupeInit ==
    /\ NoRun
    /\ probe \in { [ fn |-> "none", citations |-> c, out |-> <<>>, again |-> <<>> ] :
                      c \in SeqsUpTo({ "a1", "b1", "ghost" }, MaxIdList) }

\* dedupe_citations(citations), and dedupe_citations of its result
call_dedupe_citations ==
    /\ probe.fn = "none"
    /\ probe' = [ probe EXCEPT
                    !.fn = "dedupe_citations",
                    !.out = dedupe_citations(probe.citations),
                    !.again = dedupe_citations(dedupe_citations(probe.citations)) ]
    /\ UNCHANGED run_state

DedupeNext == call_dedupe_citations

DedupeSpec == DedupeInit /\ [][DedupeNext]_vars

CandidateInit ==
    /\ NoRun
    /\ probe \in
         { [ fn |-> "none", docs |-> s, project_id |-> "p", focus_document_id |-> f,
             query |-> q, limit |-> l, out |-> <<>> ] :
             s \in SUBSET { "dA", "dB", "dC" }, f \in { "none", "dA", "dB", "dC" },
             q \in Queries \ { QEmpty, QBlank }, l \in 1..MaxLimit }

\* pick_candidates(db, project_id, focus_document_id, query, limit)
call_pick_candidates ==
    /\ probe.fn = "none"
    /\ probe' = [ probe EXCEPT
                    !.fn = "pick_candidates",
                    !.out = pick_candidates(probe.docs, probe.project_id,
                                            probe.focus_document_id, probe.query,
                                            probe.limit) ]
    /\ UNCHANGED run_state

CandidateNext == call_pick_candidates

CandidateSpec == CandidateInit /\ [][CandidateNext]_vars

----------------------------------------------------------------------------
(* Properties *)

StepEvents == SelectSeq(events, LAMBDA e : e.name = "reasoning/step")

\* the answer, the citations and the threshold at loop exit, from the state
ExitGrounded ==
    /\ trim(answer_markdown) # <<>>
    /\ dedupe_citations(evidence_ids) # <<>>
    /\ "SENT" \notin SeqToSet(answer_markdown)

ExitThreshold ==
    IF task.focus_document_id = "none" /\ requires_project_scope(request.query)
    THEN pct(70) ELSE pct(60)

\* C1: a run is completed, and an answer row written, only if at loop exit the
\* answer is grounded (non-empty answer, non-empty citations, no sentinel) and
\* quality.overall is at least the threshold (0.70 for a relation query, 0.60
\* otherwise); in every other case the run returns QUALITY_GATE_FAILED and
\* complete_run is not called; every answer row has grounded = true.
C1_GateGuardsCompletion ==
    /\ (pc = "complete" \/ run_row.status = "completed" \/ answer # NoneF)
         => gate.evaluated /\ ExitGrounded /\ gate.overall >= ExitThreshold
    /\ (gate.evaluated /\ ~(ExitGrounded /\ gate.overall >= ExitThreshold))
         => /\ outcome = [ kind |-> "err", code |-> "QUALITY_GATE_FAILED" ]
            /\ pc \in { "returned", "done" }
            /\ run_row.status # "completed"
            /\ answer = NoneF
    /\ answer # NoneF => answer[1].grounded

C1_Witness ==
    /\ pc = "done"
    /\ run_row.status = "completed"
    /\ answer # NoneF
    /\ answer[1].grounded
    /\ gate.overall >= ExitThreshold

\* C2: with the focus document dA, which holds a section matching the query, and
\* a provider whose synthesis calls return a non-empty answer citing that
\* section with confidence 0.82, a run in which no database call fails ends
\* completed with a grounded answer, whether every planner call fails or the
\* planner follows the strategy hints of the prompt.
C2_CooperatingRunCompletes ==
    ( /\ pc = "done"
      /\ request.query = QLatency
      /\ request.focus_document_id = "dA"
      /\ "dA" \in documents
      /\ request.max_steps = NoneF
      /\ hist.planner \in { "failing", "script" }
      /\ hist.synth \in { "none", "coop" }
      /\ hist.synth = "coop"
           => hist.response.answer_markdown = Some(AnswerLatency)
      /\ outcome # [ kind |-> "err", code |-> "DATABASE_ERROR" ] )
    => /\ run_row.status = "completed"
       /\ answer # NoneF
       /\ answer[1].grounded

\* C3: step_count, the number of step rows and the number of step events are at
\* most max(2, caller_max_steps), with 6 for a caller that gives none.
C3_StepBound ==
    LET caller == IF request.max_steps = NoneF THEN 6 ELSE request.max_steps[1]
        bound == IF caller >= 2 THEN caller ELSE 2
    IN  /\ step_count <= bound
        /\ Len(steps) <= step_count
        /\ Len(StepEvents) <= Len(steps)

C3_Witness ==
    /\ pc = "batch"
    /\ plan.steps # <<>>
    /\ step_count = max_steps
    /\ Len(steps) = max_steps
    /\ Len(StepEvents) = max_steps

\* C4: the run loop ends, whatever the planner returns and whatever the steps'
\* confidences are: an iteration that does not break on Stop executes at least
\* one step, there are at most max_steps iterations, and the run terminates.
C4_LoopTerminates ==
    /\ [][pc = "plan" /\ pc' = "batch"
            => plan'.steps # <<>> /\ ~batch_cut(step_count, max_steps)]_vars
    /\ [](pc \in { "plan", "batch", "emit", "gate" } => hist.calls <= max_steps)
    /\ <>Terminated

C4_Witness ==
    /\ Terminated
    /\ hist.calls = max_steps
    /\ hist.planner = "other"
    /\ backtrack_count = 1

\* C5: the step rows have the indices 1..n in insertion order, also after a
\* step has failed in the middle of a run.
C5_ContiguousIndices ==
    /\ \A i \in 1..Len(steps) : steps[i].idx = i
    /\ Len(steps) <= step_count

C5_Witness ==
    /\ pc = "done"
    /\ outcome.kind = "err"
    /\ Len(steps) >= 2
    /\ step_count = Len(steps) + 1
    /\ steps[Len(steps)].idx = Len(steps)

\* C6: every id in the citation list of a completed run's answer is one of the
\* evidence ids its extract_evidence steps collected; an id the model reported
\* that is not in the evidence does not reach the answer row.
C6_CitationsWithinEvidence ==
    answer # NoneF
    => /\ run_row.status = "completed"
       /\ \A c \in SeqToSet(answer[1].citations) :
            /\ c \in SeqToSet(evidence_ids)
            /\ \E i \in 1..Len(steps) :
                 /\ steps[i].step_type = "extract_evidence"
                 /\ c \in SeqToSet(steps[i].node_refs)

C6_Witness ==
    /\ answer # NoneF
    /\ hist.response.citations = Some(<< "ghost", "b1", "b1" >>)
    /\ "ghost" \notin SeqToSet(answer[1].citations)
    /\ "b1" \in SeqToSet(answer[1].citations)

\* C7: the citation list given to the evaluator and persisted with the answer
\* is the normalized citation list of the synthesis: the cited ids that are in
\* evidence_ids, or the first 4 evidence ids when none is, without duplicates.
C7_NormalizedCitationsPersisted ==
    LET cited == unwrap_or(hist.response.citations, <<>>)
        kept == SelectSeq(cited, LAMBDA c : c \in SeqToSet(evidence_ids))
        normalized == dedupe_citations(IF kept = <<>> THEN take(evidence_ids, 4)
                                       ELSE kept)
    IN  (gate.evaluated /\ hist.synth # "none")
        => /\ gate.citations = normalized
           /\ answer # NoneF => answer[1].citations = normalized

\* C8: every persisted confidence is in [0,1]: the confidence of each step row
\* and the confidence of the answer.
C8_ConfidencesInUnitInterval ==
    /\ \A i \in 1..Len(steps) :
         steps[i].confidence >= 0 /\ steps[i].confidence <= Unit
    /\ answer # NoneF
         => answer[1].confidence >= 0 /\ answer[1].confidence <= Unit

\* C9: the final_confidence of a completed run with a grounded answer is the
\* larger of the last step's confidence and quality.overall, so at least
\* quality.overall, which is at least the threshold.
C9_FinalConfidence ==
    (answer # NoneF /\ answer[1].grounded)
    => LET last == IF confidence = NoneF THEN pct(30) ELSE confidence[1]
           larger == IF last >= gate.overall THEN last ELSE gate.overall
       IN  /\ answer[1].confidence = larger
           /\ outcome = [ kind |-> "ok", final_confidence |-> larger ]
           /\ answer[1].confidence >= gate.overall
           /\ gate.overall >= ExitThreshold

C9_Witness ==
    /\ answer # NoneF
    /\ answer[1].grounded
    /\ confidence # NoneF
    /\ confidence[1] < gate.overall
    /\ answer[1].confidence = gate.overall

\* C10: backtrack_count is at most 2, and the loop exits right after the batch
\* in which it reaches 2: no planner call is made with backtrack_count = 2.
C10_BacktrackBound ==
    /\ backtrack_count <= 2
    /\ pc = "plan" => backtrack_count < 2

C10_Witness ==
    /\ backtrack_count = 2
    /\ pc = "emit"
    /\ Len(steps) >= 6

\* the events that end a run
TerminalEvents == SelectSeq(events, LAMBDA e : e.name # "reasoning/step")

\* C11: when the self_check that ends the initial pipeline (scan_root ..
\* self_check, with backtrack_count = 0) yields a confidence below 0.70, with
\* the default max_steps or a larger one, the loop does not end there: the next
\* plan is the Backtrack sequence and backtrack_count becomes 1.
C11_BacktrackAfterInitialSelfCheck ==
    ( /\ pc \in { "gate", "complete", "returned", "done" }
      /\ request.max_steps = NoneF \/ request.max_steps[1] >= 6
      /\ Len(steps) >= 6
      /\ [ i \in 1..6 |-> steps[i].step_type ] = FullPipeline
      /\ steps[6].confidence < pct(70) )
    => /\ backtrack_count >= 1
       /\ plan = [ decision |-> "Backtrack", steps |-> plan.steps ]

\* C12: a planner call that fails does not end the run: the plan of that
\* iteration is the deterministic next_steps of the same planner input, nothing
\* else of the run's state changes by the failure, and the loop goes on with
\* that plan (the batch, or the exit when the plan is Stop).
C12_PlannerFailureFallsBack ==
    [][ (pc = "plan" /\ hist'.calls = hist.calls + 1 /\ hist'.failed)
        => /\ plan' = next_steps([ last_confidence |-> confidence,
                                   has_evidence |-> evidence_ids # <<>>,
                                   step_count |-> step_count,
                                   backtrack_count |-> backtrack_count ])
           /\ pc' = IF plan'.decision = "Stop" THEN "gate" ELSE "batch"
           /\ backtrack_count' = IF plan'.decision = "Backtrack"
                                 THEN backtrack_count + 1 ELSE backtrack_count
           /\ outcome' = [ kind |-> "pending" ]
           /\ UNCHANGED << max_steps, step_count, confidence, evidence_ids,
                           evidence_snippets, evidence_doc_map, answer_markdown,
                           token_usage, cost_usd, gate, run_row, steps, answer,
                           events >> ]_vars

C12_Witness ==
    /\ pc = "emit"
    /\ hist.failed
    /\ hist.answered = 1
    /\ hist.calls = 2
    /\ plan.decision = "Backtrack"
    /\ Len(steps) >= 3

\* C13: an error that is no planner failure aborts the run: no answer row, no
\* completion, no step event without a row, and when the task has finished the
\* run has status failed and one terminal event, reasoning/error with the code.
C13_ErrorsAbortAndMarkFailed ==
    outcome.kind = "err"
    => /\ answer = NoneF
       /\ run_row.status # "completed"
       /\ Len(StepEvents) <= Len(steps)
       /\ pc = "done"
            => /\ run_row.status = "failed"
               /\ TerminalEvents = << [ name |-> "reasoning/error",
                                        code |-> outcome.code,
                                        retryable |-> retryable(outcome.code) ] >>

\* C14: when the answer at loop exit is empty because no synthesize step was
\* executed, or is the sentinel text, the run returns QUALITY_GATE_FAILED, no
\* answer row is written and the run ends with status failed.
C14_EmptyAnswerRejected ==
    ( /\ gate.evaluated
      /\ \/ /\ answer_markdown = <<>>
            /\ \A i \in 1..Len(steps) : steps[i].step_type # "synthesize"
         \/ answer_markdown = SentinelAnswer )
    => /\ outcome = [ kind |-> "err", code |-> "QUALITY_GATE_FAILED" ]
       /\ answer = NoneF
       /\ pc = "done" => run_row.status = "failed"

\* C15: a query that requires project scope runs without the caller's focus:
\* its retrieval steps read the whole project, relation_query is true and the
\* threshold is 0.70; any other query runs with the caller's focus.
C15_ProjectScopeOverridesFocus ==
    LET scoped == requires_project_scope(request.query)
        focus == IF scoped THEN "none" ELSE request.focus_document_id
        refs(step_type) ==
            CASE step_type = "scan_root" ->
                   take(NodeIds(scope_nodes(documents, request.project_id, focus, 2)), 3)
              [] step_type = "select_sections" ->
                   NodeIds(pick_candidates(documents, request.project_id, focus,
                                           request.query, 6))
              [] step_type = "drill_down" ->
                   NodeIds(pick_candidates(documents, request.project_id, focus,
                                           request.query, 12))
              [] step_type = "extract_evidence" ->
                   NodeIds(pick_candidates(documents, request.project_id, focus,
                                           request.query, 8))
    IN  pc \notin { "idle", "rejected" }
        => /\ task.focus_document_id = focus
           /\ \A i \in 1..Len(steps) :
                IsRetrieval(steps[i].step_type)
                => steps[i].node_refs = refs(steps[i].step_type)
           /\ gate.evaluated
                => /\ gate.relation_query = scoped
                   /\ gate.min_quality_score = IF scoped THEN pct(70) ELSE pct(60)

C15_Witness ==
    /\ requires_project_scope(request.query)
    /\ request.focus_document_id = "dA"
    /\ gate.evaluated
    /\ gate.min_quality_score = pct(70)
    /\ \E i \in 1..Len(steps) :
         /\ steps[i].step_type = "extract_evidence"
         /\ "b1" \in SeqToSet(steps[i].node_refs)

\* C16: a model step whose stepType is no recognized kind, or whose stepType or
\* objective is blank, is discarded whatever its decision: with step_count below
\* the planner's max_steps the plan is the deterministic next_steps of the input.
C16_InvalidModelStepDiscarded ==
    ( /\ probe.fn = "plan_for"
      /\ probe.response.error = NoError
      /\ probe.input.step_count < PlannerConfig.max_steps
      /\ \/ probe.response.step.step_type \in { "nonsense", " " }
         \/ probe.response.step.objective = " " )
    => probe.out = Some(next_steps(probe.input))

\* C17: for a model step with decision stop, finish or done and step_count
\* below the planner's max_steps, next_steps_from_model returns Stop with no
\* steps exactly when has_evidence, else Continue with scan_root, select_sections.
C17_StopNeedsEvidence ==
    ( /\ probe.fn = "next_steps_from_model"
      /\ probe.response.step.decision \in { "stop", "STOP", "finish", "done" }
      /\ probe.input.step_count < PlannerConfig.max_steps )
    => /\ probe.input.has_evidence
            => probe.out = Some([ decision |-> "Stop", steps |-> <<>> ])
       /\ ~probe.input.has_evidence
            => probe.out = Some([ decision |-> "Continue",
                                  steps |-> << "scan_root", "select_sections" >> ])

C17_Witness ==
    /\ probe.fn = "next_steps_from_model"
    /\ probe.response.step.decision = "finish"
    /\ probe.response.step.step_type = "synthesize"
    /\ probe.input.step_count = 2
    /\ ~probe.input.has_evidence
    /\ probe.out # Some([ decision |-> "Stop", steps |-> <<>> ])

\* C18: next_steps returns the row of the fallback table chosen by the first
\* matching precondition: step_count >= 6 Stop; a present last_confidence below
\* 0.70 with backtrack_count < 2 Backtrack with the 5-step block; has_evidence
\* Continue with synthesize, self_check; else Continue with the full pipeline.
\* A missing last_confidence never gives Backtrack.
C18_FallbackTable ==
    probe.fn = "next_steps"
    => LET i == probe.input
           row == CASE i.step_count >= 6 -> << "Stop", <<>> >>
                    [] i.step_count < 6 /\ i.last_confidence # NoneF
                       /\ i.last_confidence[1] < pct(70) /\ i.backtrack_count < 2 ->
                         << "Backtrack",
                            << "select_sections", "drill_down", "extract_evidence",
                               "synthesize", "self_check" >> >>
                    [] OTHER ->
                         IF i.has_evidence
                         THEN << "Continue", << "synthesize", "self_check" >> >>
                         ELSE << "Continue",
                                 << "scan_root", "select_sections", "drill_down",
                                    "extract_evidence", "synthesize", "self_check" >> >>
       IN  /\ probe.out = Some([ decision |-> row[1], steps |-> row[2] ])
           /\ i.last_confidence = NoneF => probe.out[1].decision # "Backtrack"

C18_Witness ==
    /\ probe.fn = "next_steps"
    /\ probe.input.step_count = 5
    /\ probe.input.last_confidence = NoneF
    /\ probe.input.backtrack_count = 0
    /\ probe.input.has_evidence
    /\ probe.out[1].steps = << "synthesize", "self_check" >>

\* C19: for an accepted model step and step_count below the planner's
\* max_steps, decision continue gives Continue with the expansion of the step
\* kind, and decision backtrack gives Backtrack with the 5-step block of the
\* deterministic planner.
C19_ModelStepExpansion ==
    LET t == probe.response.step.step_type
        d == probe.response.step.decision
        expansion ==
            CASE t \in { "search", " Search ", "scan_root" } ->
                   << "scan_root", "select_sections" >>
              [] t \in { "inspect", "drill_down" } -> << "drill_down", "extract_evidence" >>
              [] t = "synthesize" -> << "synthesize" >>
              [] t \in { "self_check", "finish" } -> << "self_check" >>
              [] t = "select_sections" -> << "select_sections" >>
              [] t = "extract_evidence" -> << "extract_evidence" >>
    IN  ( /\ probe.fn = "next_steps_from_model"
          /\ probe.input.step_count < PlannerConfig.max_steps )
        => /\ (d = "continue" /\ t \notin { "nonsense", "validate" })
                => probe.out = Some([ decision |-> "Continue", steps |-> expansion ])
           /\ d = "backtrack"
                => /\ probe.out = Some([ decision |-> "Backtrack",
                                         steps |-> << "select_sections", "drill_down",
                                                      "extract_evidence", "synthesize",
                                                      "self_check" >> ])
                   /\ probe.out[1].steps =
                        next_steps([ probe.input EXCEPT
                                       !.last_confidence = Some(0),
                                       !.backtrack_count = 0 ]).steps

C19_Witness ==
    /\ probe.fn = "next_steps_from_model"
    /\ probe.response.step.decision = "continue"
    /\ probe.response.step.step_type = "inspect"
    /\ probe.input.step_count = 4
    /\ probe.out = Some([ decision |-> "Continue",
                          steps |-> << "drill_down", "extract_evidence" >> ])

\* C20: requires_project_scope is true exactly when (M and (R or P)) or the
\* query contains "across documents" or "across files" or (R and P) or
\* (R and M and not S); in particular it is false for a query with a
\* single-document hint and neither M nor P.
C20_ProjectScopeTable ==
    probe.fn = "requires_project_scope"
    => LET q == probe.query
       IN  /\ probe.out = Some(\/ q.M /\ (q.R \/ q.P)
                               \/ q.X
                               \/ q.R /\ q.P
                               \/ q.R /\ q.M /\ ~q.S)
           /\ (q.S /\ ~q.M /\ ~q.P) => probe.out = Some(FALSE)

C20_Witness ==
    /\ probe.fn = "requires_project_scope"
    /\ probe.query.R
    /\ probe.query.S
    /\ ~probe.query.M
    /\ ~probe.query.P
    /\ probe.focus_document_id = "dA"
    /\ probe.out = Some(FALSE)
    /\ probe.focus = "dA"

\* C21: the event of step N is emitted only when the row of step N is already
\* in the store, and with an index above every index emitted before; so every
\* step event has its row and the events are in strictly increasing index order.
C21_EmitAfterPersist ==
    [][ events' # events /\ events'[Len(events')].name = "reasoning/step"
        => LET e == events'[Len(events')]
           IN  /\ events' = Append(events, e)
               /\ steps' = steps
               /\ \E j \in 1..Len(steps) :
                    /\ steps[j].idx = e.step_index
                    /\ steps[j].step_type = e.step_type
               /\ \A j \in 1..Len(steps) :
                    steps[j].idx < e.step_index => j < Len(steps)
               /\ \A i \in 1..Len(events) :
                    events[i].name = "reasoning/step"
                    => events[i].step_index < e.step_index ]_vars

C21_Witness ==
    /\ Len(StepEvents) = 3
    /\ Len(steps) = 4
    /\ pc = "emit"
    /\ StepEvents[3].step_index = 3
    /\ steps[4].idx = 4

\* C22: complete_run or fail_run is the last write of a run: once the status is
\* completed or failed no step row is appended, the answer row does not change
\* and the status stays; the status changes only from running to completed or
\* from running to failed.
C22_TerminalWrite ==
    [][ /\ run_row.status \in { "completed", "failed" }
            => /\ run_row' = run_row
               /\ steps' = steps
               /\ answer' = answer
        /\ run_row'.status # run_row.status
            => \/ run_row.status = "absent" /\ run_row'.status = "running"
               \/ /\ run_row.status = "running"
                  /\ run_row'.status \in { "completed", "failed" } ]_vars

C22_Witness ==
    /\ pc = "done"
    /\ run_row.status = "completed"
    /\ Len(steps) >= 2
    /\ TerminalEvents # <<>>

\* C23: complete_run is atomic: in every state of the store there is an answer
\* row exactly when the status is completed; a failed complete_run leaves the
\* status running and no answer row, and a failed run has no answer row.
C23_CompleteRunAtomic ==
    /\ answer # NoneF <=> run_row.status = "completed"
    /\ (gate.evaluated /\ outcome = [ kind |-> "err", code |-> "DATABASE_ERROR" ])
         => /\ answer = NoneF
            /\ pc = "returned" => run_row.status = "running"
    /\ run_row.status = "failed" => answer = NoneF

C23_Witness ==
    /\ gate.evaluated
    /\ outcome = [ kind |-> "err", code |-> "DATABASE_ERROR" ]
    /\ pc = "done"
    /\ run_row.status = "failed"
    /\ answer = NoneF

\* C24: evaluate_answer returns overall = min(1, 0.40 query_alignment + 0.25
\* citation_coverage + 0.20 cross_document_coverage + 0.15 grounding_score),
\* every component and overall lie in [0,1], and an empty answer with no
\* citations is not grounded and scores at most 0.20.
C24_OverallFormula ==
    probe.fn = "evaluate_answer"
    => LET m == probe.out[1]
           g == IF m.grounded THEN Unit ELSE 0
           sum == (40 * m.query_alignment + 25 * m.citation_coverage
                   + 20 * m.cross_document_coverage + 15 * g) \div 100
       IN  /\ m.overall = IF sum > Unit THEN Unit ELSE sum
           /\ \A v \in { m.overall, m.query_alignment, m.citation_coverage,
                         m.cross_document_coverage } : 0 <= v /\ v <= Unit
           /\ m.grounded <=> (trim(probe.answer_markdown) # <<>>
                              /\ probe.citations # <<>>)
           /\ (probe.answer_markdown = <<>> /\ probe.citations = <<>>)
                => ~m.grounded /\ m.overall <= pct(20)

C24_Witness ==
    /\ probe.fn = "evaluate_answer"
    /\ probe.answer_markdown = <<>>
    /\ probe.citations = <<>>
    /\ probe.evidence_node_ids = << "a1", "b1" >>
    /\ ~probe.relation_query
    /\ probe.out[1].overall = pct(20)

C26_RelationGate ==
    LET docs == { evidence_doc_map[c] :
                    c \in SeqToSet(gate.citations) \cap DOMAIN evidence_doc_map }
    IN  /\ (run_row.status = "completed" /\ gate.relation_query)
             => /\ gate.cross_document_coverage >= Unit \div 2
                /\ gate.overall >= pct(70)
        /\ gate.evaluated
             => gate.cross_document_coverage =
                  IF ~gate.relation_query THEN Unit
                  ELSE IF Cardinality(docs) >= 2 THEN Unit
                  ELSE IF Cardinality(docs) = 1 THEN Unit \div 2
                  ELSE 0

C26_Witness ==
    /\ run_row.status = "completed"
    /\ gate.relation_query
    /\ gate.cross_document_coverage = Unit \div 2
    /\ answer # NoneF

RECURSIVE depth_below(_, _, _)
depth_below(rows, n, roots) ==
    IF n \in roots THEN 0
    ELSE IF \E q \in rows : q.id = n.parent_id
    THEN 1 + depth_below(rows, CHOOSE q \in rows : q.id = n.parent_id, roots)
    ELSE MaxDepth + 2

\* C28: get_tree(document, parent, k) returns exactly the nodes of the document
\* in the subtree rooted at parent (at the document's root when parent is
\* absent) at depth <= k, the subtree root at depth 0 included, for every
\* k >= 0; every returned node is of that document and at depth <= k.
C28_SubtreeWithinDepth ==
    probe.fn = "get_tree"
    => LET rows == { n \in doc_nodes(probe.docs) :
                       n.document_id = probe.document_id }
           roots == { n \in rows : IF probe.parent_id = "none"
                                   THEN n.parent_id = "none"
                                   ELSE n.id = probe.parent_id }
       IN  /\ SeqToSet(probe.out)
                = { n \in rows : depth_below(rows, n, roots) <= probe.depth }
           /\ Len(probe.out) = Cardinality(SeqToSet(probe.out))
           /\ \A i \in 1..Len(probe.out) :
                /\ probe.out[i].document_id = probe.document_id
                /\ depth_below(rows, probe.out[i], roots) <= probe.depth

\* C29: get_project_tree(project, k) returns the roots of all documents of the
\* project and their descendants up to depth k, ordered by the owning
\* document's created_at, then parent-less nodes first, then ordinal_path, for
\* every depth k.
C29_ProjectTreeOrder ==
    probe.fn = "get_project_tree"
    => LET rows == { n \in doc_nodes(probe.docs) :
                       DocOf(n.document_id).project_id = probe.project_id }
           roots == { n \in rows : n.parent_id = "none" }
           before(a, b) ==
               LET ca == DocOf(a.document_id).created_at
                   cb == DocOf(b.document_id).created_at
               IN  \/ ca < cb
                   \/ ca = cb /\ NullFirst(a) < NullFirst(b)
                   \/ /\ ca = cb
                      /\ NullFirst(a) = NullFirst(b)
                      /\ PathRank(a.ordinal_path) <= PathRank(b.ordinal_path)
       IN  /\ SeqToSet(probe.out)
                = { n \in rows : depth_below(rows, n, roots) <= probe.depth }
           /\ \A i \in 1..Len(probe.out) : \A j \in 1..Len(probe.out) :
                i < j => before(probe.out[i], probe.out[j])

\* C30: exactly PROVIDER_RATE_LIMITED, PROVIDER_TIMEOUT and NETWORK_ERROR are
\* retryable; the reasoning/error event of a failed run carries the code of the
\* error that ended the run and that flag; and the run does not retry: once a
\* call has failed the run, no provider call and no step follows.
C30_RetryableTaxonomy ==
    [][ /\ \A code \in ErrorCodes :
             retryable(code) <=> code \in { "PROVIDER_RATE_LIMITED",
                                            "PROVIDER_TIMEOUT", "NETWORK_ERROR" }
        /\ (events' # events /\ events'[Len(events')].name = "reasoning/error")
             => LET e == events'[Len(events')]
                IN  /\ outcome.kind = "err"
                    /\ e.code = outcome.code
                    /\ e.code \in ErrorCodes
                    /\ e.retryable <=> e.code \in { "PROVIDER_RATE_LIMITED",
                                                    "PROVIDER_TIMEOUT",
                                                    "NETWORK_ERROR" }
        /\ outcome.kind = "err"
             => /\ outcome' = outcome
                /\ hist' = hist
                /\ steps' = steps
                /\ step_count' = step_count ]_vars

C30_Witness ==
    /\ pc = "done"
    /\ outcome = [ kind |-> "err", code |-> "PROVIDER_TIMEOUT" ]
    /\ TerminalEvents = << [ name |-> "reasoning/error", code |-> "PROVIDER_TIMEOUT",
                             retryable |-> TRUE ] >>
    /\ Len(steps) >= 4
    /\ answer = NoneF

\* C31: start_query with an empty or blank query returns INVALID_INPUT, and
\* with a query but no stored API key returns PROVIDER_AUTH; in both cases no
\* run row is created, no task runs and no event is emitted.
C31_RejectedBeforeSpawn ==
    LET blank == trim(request.query.text) = <<>>
    IN  pc # "idle"
        => /\ blank => host_result = "INVALID_INPUT"
           /\ (~blank /\ ~key_present) => host_result = "PROVIDER_AUTH"
           /\ (~blank /\ key_present) => host_result = "started"
           /\ host_result # "started"
                => /\ pc = "rejected"
                   /\ run_row.status = "absent"
                   /\ steps = <<>>
                   /\ answer = NoneF
                   /\ events = <<>>
                   /\ outcome = [ kind |-> "pending" ]
                   /\ hist.calls = 0

C31_Witness ==
    /\ pc = "rejected"
    /\ host_result = "PROVIDER_AUTH"
    /\ request.query = QLatency
    /\ ~key_present
    /\ run_row.status = "absent"

\* C32: dedupe_citations returns each distinct id of its input exactly once,
\* in the order of first occurrence; applied to its own result it changes
\* nothing, and a list without repeats is returned as it is.
C32_DedupeFirstSeen ==
    probe.fn = "dedupe_citations"
    => LET c == probe.citations
           out == probe.out
           first(id) == CHOOSE i \in 1..Len(c) :
                          c[i] = id /\ \A j \in 1..(i - 1) : c[j] # id
       IN  /\ SeqToSet(out) = SeqToSet(c)
           /\ Cardinality(SeqToSet(out)) = Len(out)
           /\ \A i \in 1..Len(out) : \A j \in 1..Len(out) :
                i < j => first(out[i]) < first(out[j])
           /\ probe.again = out
           /\ Cardinality(SeqToSet(c)) = Len(c) => out = c

C32_Witness ==
    /\ probe.fn = "dedupe_citations"
    /\ probe.citations = << "b1", "a1", "b1", "a1" >>
    /\ probe.out = << "b1", "a1" >>

\* C33: pick_candidates with limit >= 1 returns at most limit nodes, in ranking
\* order; without a focus at most max(limit / 2, 2) of them are of one document
\* (at most 8 nodes and 4 per document at limit 8); with a focus the first
\* limit ranked nodes are returned; the ranking is the search result, or the
\* depth-2 scope when the search finds nothing.
C33_CandidateCaps ==
    probe.fn = "pick_candidates"
    => LET out == probe.out
           limit == probe.limit
           focus == probe.focus_document_id
           found == search_project_nodes(probe.docs, probe.project_id, focus,
                                         probe.query, Max(4 * limit, 12))
           ranked == IF found = <<>>
                     THEN scope_nodes(probe.docs, probe.project_id, focus, 2)
                     ELSE found
           pos(n) == CHOOSE i \in 1..Len(ranked) : ranked[i] = n
           cap == IF limit \div 2 > 2 THEN limit \div 2 ELSE 2
       IN  /\ Len(out) <= limit
           /\ \A i \in 1..Len(out) : out[i] \in SeqToSet(ranked)
           /\ \A i \in 1..Len(out) : \A j \in 1..Len(out) :
                i < j => pos(out[i]) < pos(out[j])
           /\ focus = "none"
                => \A d \in { "dA", "dB", "dC" } : CountDoc(out, d) <= cap
           /\ focus # "none" => out = take(ranked, limit)
           /\ (limit = 8 /\ focus = "none")
                => /\ Len(out) <= 8
                   /\ \A d \in { "dA", "dB", "dC" } : CountDoc(out, d) <= 4

C33_Witness ==
    /\ probe.fn = "pick_candidates"
    /\ probe.focus_document_id = "none"
    /\ probe.docs = { "dB", "dC" }
    /\ probe.limit = 5
    /\ probe.query = QVague
    /\ NodeIds(probe.out) = << "rB", "b1", "rC", "c1" >>

\* C34: every run started through the host emits exactly one terminal event
\* once its task has finished, reasoning/complete with the run completed or
\* reasoning/error with the run failed, never both and never neither; the
\* terminal event comes after every reasoning/step event and after the
\* terminal write, so none is there while the task is still running.
C34_OneTerminalEvent ==
    host_result = "started"
    => /\ pc # "done" => TerminalEvents = <<>>
       /\ pc = "done"
            => /\ Len(TerminalEvents) = 1
               /\ events[Len(events)] = TerminalEvents[1]
               /\ TerminalEvents[1].name = "reasoning/complete"
                    => /\ outcome.kind = "ok"
                       /\ run_row.status = "completed"
               /\ TerminalEvents[1].name = "reasoning/error"
                    => /\ outcome.kind = "err"
                       /\ run_row.status = "failed"

\* C35: the response of get_run is a consistent snapshot, also when the task
\* of the run commits add_step and complete_run between its three queries: it
\* never holds an answer together with status running, and never status
\* completed without the answer.
C35_GetRunSnapshot ==
    (probe.fn = "get_run" /\ probe.result = "ok")
    => /\ ~(probe.run = "running" /\ probe.answer # NoneF)
       /\ ~(probe.run = "completed" /\ probe.answer = NoneF)

\* C36: once run_reasoning_query has returned the run_id, get_run of that id
\* finds the run, with status running, completed or failed, and never fails
\* with NOT_FOUND.
C36_RunFoundAfterStart ==
    (probe.fn = "get_run" /\ probe.at = "done")
    => /\ probe.result # "NOT_FOUND"
       /\ probe.result = "ok" => probe.run \in { "running", "completed", "failed" }

\* C37: for a query that is not a relation query the quality gate passes
\* exactly when the answer is grounded: a grounded answer has citation_coverage
\* 1 and overall >= 0.60 whatever its query_alignment, so the threshold 0.60
\* never rejects it.
C37_GateEqualsGrounded ==
    (gate.evaluated /\ ~gate.relation_query)
    => LET quality == evaluate_answer(request.query, answer_markdown, gate.citations,
                                      evidence_ids, evidence_doc_map, FALSE)
           rejected == outcome = [ kind |-> "err", code |-> "QUALITY_GATE_FAILED" ]
       IN  /\ gate.grounded <=> ~rejected
           /\ gate.grounded
                => /\ quality.citation_coverage = Unit
                   /\ gate.overall = quality.overall
                   /\ gate.overall >= MIN_QUALITY_SCORE
                   /\ gate.overall = pct(60) + (quality.query_alignment * 40) \div 100

C37_Witness ==
    /\ pc = "complete"
    /\ gate.evaluated /\ ~gate.relation_query /\ gate.grounded
    /\ gate.overall = MIN_QUALITY_SCORE
    /\ query_alignment_score(request.query, answer_markdown) = 0

\* C38: a run whose synthesis output holds no usable answer is never completed
\* as grounded: when the provider's default text stands in for a missing
\* answer_markdown the quality gate rejects the run, as it does when the
\* executor's own sentinel is the answer.
C38_DefaultAnswerRejected ==
    (gate.evaluated /\ answer_markdown \in { DefaultAnswer, SentinelAnswer })
    => /\ ~gate.grounded
       /\ outcome = [ kind |-> "err", code |-> "QUALITY_GATE_FAILED" ]
       /\ answer = NoneF
       /\ run_row.status # "completed"

\* the step rows of a task carry the indices 1..n in order
ContiguousRows(t) == \A i \in 1..Len(t.steps) : t.steps[i].idx = i

\* a finished task has the terminal status of its own outcome
OwnTerminalStatus(t) ==
    t.pc = "done"
    => /\ t.outcome.kind = "ok" => t.run_row.status = "completed"
       /\ t.outcome.kind = "err" => t.run_row.status = "failed"

\* the counters, the evidence, the rows and the events of a task agree with
\* each other whatever the other task has done
OwnState(t) ==
    /\ Len(t.steps) <= t.step_count
    /\ t.step_count <= t.max_steps
    /\ t.backtrack_count <= PlannerConfig.max_backtracks
    /\ Len(SelectSeq(t.events, LAMBDA e : e.name = "reasoning/step")) <= Len(t.steps)
    /\ t.answer # NoneF
         => /\ t.run_row.status = "completed"
            /\ t.answer[1].answer_markdown = t.answer_markdown
            /\ t.answer[1].citations = dedupe_citations(t.evidence_ids)

\* C39: two runs with distinct run ids do not interfere under any interleaving
\* of their steps: a step of one task leaves the state of the other unchanged,
\* so each run's step_count, backtrack_count, evidence and answer come from its
\* own inputs and provider responses; each run's step rows carry its own
\* indices 1..n; each run ends with its own terminal status.
C39_RunsDoNotInterfere ==
    [][ probe.fn = "tasks"
        => /\ probe'.current = probe.current => probe'.parked = probe.parked
           /\ probe'.current # probe.current
                => probe'.parked = TaskState /\ TaskState' = probe.parked
           /\ ContiguousRows(TaskState') /\ ContiguousRows(probe'.parked)
           /\ OwnState(TaskState') /\ OwnState(probe'.parked)
           /\ OwnTerminalStatus(TaskState') /\ OwnTerminalStatus(probe'.parked)
      ]_vars

====
